---- MODULE Spec2Model ----
(***************************************************************************)
(* Client-side orchestration of the 3D-print quoting front end.            *)
(*                                                                         *)
(* src/frontend/src/pages/StaffQuote.jsx holds the staff page (StaffQuote, *)
(* lines 16-416) and the public page with the upload and manual tabs       *)
(* (PublicQuote, lines 1057-1504).  One browser page shows one of the two  *)
(* components; the variable page says which one is mounted.  The routes,   *)
(* their guards and the login page are in src/frontend/src/pages/          *)
(* StaffLogin.jsx (StaffLogin 6-106, RequireStaff, RequireAdmin and the    *)
(* routes 115-153).  CSelect, the select both tabs of the public page use, *)
(* is at lines 917-1054 of StaffQuote.jsx.  src/frontend/src/App.jsx is    *)
(* the single-form page (App, lines 5-341): one form, a file input that    *)
(* asks for an estimate and a button that asks for the price.              *)
(*                                                                         *)
(* JavaScript values are records [t, n, s]: t is the type tag, n the       *)
(* number of a "num", s the text of a "str".  Identifiers (material,       *)
(* group and machine ids) are strings written as tuples of lexical atoms,  *)
(* <<"pla", "_", "black">> for "pla_black", <<>> for the empty string.     *)
(***************************************************************************)
EXTENDS Integers, Sequences, FiniteSets, TLC

VARIABLES
    page,           \* "staff" | "public" | "login" | "admin" | "app": the mounted component
    mount,          \* position of the mount effect
    materialGroups, \* useState([])  raw groups of GET material-groups
    machines,       \* useState([])  (staff)
    groupId,        \* useState("")
    materialId,     \* useState("")
    machineId,      \* useState("")  (staff)
    tab,            \* useState("manual") staff, useState("upload") public
    qty,            \* useState(1) staff, useState("1") public
    grams,          \* useState("")
    minutes,        \* useState("")
    postProHours,   \* useState("0") (staff)
    extras,         \* useState("0") (staff)
    upQty,          \* useState(1)   (staff)
    file,           \* useState(null)
    quality,        \* useState("normal")
    progress,       \* useState(0)
    estGrams,       \* useState(null) (staff)
    estMinutes,     \* useState(null) (staff)
    total,          \* useState(null)
    err,            \* useState("")
    loading,        \* useState(false)
    store,          \* localStorage: staff_token, staff_role, staff_username
    login,          \* StaffLogin: useState of err and loading
    mountLog,       \* the requests of the mount effect, each with its answer
    open,           \* CSelect: useState(false)
    highlight,      \* CSelect: useState(-1), an index from 0 into options
    value,          \* CSelect: the value prop
    options,        \* CSelect: the options prop, {value, label} each
    disabled,       \* CSelect: the disabled prop
    focused,        \* where the keyboard focus is: "trigger" | "page"
    estimating,     \* App: useState(false)
    calls,          \* the submissions started so far, each an async call
    edits,          \* how many times the user has changed a field or a select
    ev              \* the last step: handler, call, requests sent, response read

vars == <<page, mount, materialGroups, machines, groupId, materialId, machineId,
          tab, qty, grams, minutes, postProHours, extras, upQty, file, quality,
          progress, estGrams, estMinutes, total, err, loading, store, login,
          mountLog, open, highlight, value, options, disabled, focused,
          estimating, calls, edits, ev>>

catalogVars == <<materialGroups, machines, groupId, materialId, machineId>>
inputVars == <<tab, qty, grams, minutes, postProHours, extras, upQty, file, quality>>
sessionVars == <<progress, estGrams, estMinutes, total, err, loading>>
shellVars == <<store, login>>
widgetVars == <<open, highlight, value, options, disabled, focused>>

----------------------------------------------------------------------------
(* Bounds of the model *)

\* submissions (submit clicks that start a call) in one run
MaxSubmits == 2

\* changes of an input field or of a select in one run
MaxEdits == 3

----------------------------------------------------------------------------
(* JavaScript values *)

JsNum(n) == [t |-> "num", n |-> n, s |-> ""]
JsStr(s) == [t |-> "str", n |-> 0, s |-> s]
NaN == [t |-> "nan", n |-> 0, s |-> ""]
Null == [t |-> "null", n |-> 0, s |-> ""]
Undefined == [t |-> "undefined", n |-> 0, s |-> ""]

\* JavaScript truthiness: 0, NaN, "", null and undefined are falsy
Truthy(v) ==
    CASE v.t = "num" -> v.n # 0
      [] v.t = "str" -> v.s # ""
      [] OTHER -> FALSE

\* a || d
Or(v, d) == IF Truthy(v) THEN v ELSE d

\* the decimal literals among the texts of the model and their values
Numerals ==
    [s \in {"0", "1", "2", "3", "120", "180", "-5", "-1"} |->
        CASE s = "0" -> 0 [] s = "1" -> 1 [] s = "2" -> 2 [] s = "3" -> 3
          [] s = "120" -> 120 [] s = "180" -> 180 [] s = "-5" -> 0 - 5
          [] s = "-1" -> 0 - 1]

\* Number(v): "" is 0, a decimal literal its value, any other text NaN;
\* null is 0 and undefined is NaN
Number(v) ==
    CASE v.t = "num" -> v
      [] v.t = "nan" -> NaN
      [] v.t = "null" -> JsNum(0)
      [] v.t = "undefined" -> NaN
      [] v.t = "str" ->
            IF v.s = "" THEN JsNum(0)
            ELSE IF v.s \in DOMAIN Numerals THEN JsNum(Numerals[v.s])
            ELSE NaN

\* a > b and a >= b on numbers: every comparison with NaN is false
Gt(a, b) == a.t = "num" /\ b.t = "num" /\ a.n > b.n
Ge(a, b) == a.t = "num" /\ b.t = "num" /\ a.n >= b.n
IsFinite(a) == a.t = "num"

\* v ?? null
NullishToNull(v) == IF v.t \in {"undefined", "null"} THEN Null ELSE v

\* faulty variant: the message alone, without the fallback to String(e)
ErrorMessage_messageOnly(msg) == msg

\* e?.message || String(e) for an Error built from the text msg
ErrorMessage(msg) == IF msg # "" THEN msg ELSE "Error"

----------------------------------------------------------------------------
(* The remote collaborators: what the network can answer *)

\* the material taxonomies GET material-groups can return
\* an option that carries only its id (no title, no name)
Opt(id) == [id |-> id, title |-> "", name |-> ""]

RawCatalogs ==
    { <<>>,
      << [group_id |-> <<"pla", "_", "fast">>,
          options |-> << Opt(<<"pla", "_", "black">>), Opt(<<"pla", "_", "white">>) >>],
         [group_id |-> <<"petg">>,
          options |-> << Opt(<<"petg", "_", "black">>) >>],
         [group_id |-> <<"tpu">>, options |-> << >>] >> }

\* the machine lists GET machines can return
MachineLists == { <<>>, << [id |-> <<"kobra">>], [id |-> <<"ender">>] >> }

\* a response: kind "ok" (2xx, parsable body), "http_error" (non-2xx, its body
\* text in text) or "network_error" (fetch rejects)
FetchFailure == "Failed to fetch"
ErrorTexts == {"detail", ""}

\* GET auth/me: only the status is read
AuthMeResponses == [kind : {"ok", "http_error", "network_error"}]

MaterialGroupsResponses ==
    [kind : {"ok"}, text : {""}, material_groups : RawCatalogs]
    \cup [kind : {"http_error"}, text : ErrorTexts, material_groups : {<<>>}]
    \cup [kind : {"network_error"}, text : {FetchFailure}, material_groups : {<<>>}]

MachinesResponses ==
    [kind : {"ok"}, text : {""}, machines : MachineLists]
    \cup [kind : {"http_error"}, text : ErrorTexts, machines : {<<>>}]
    \cup [kind : {"network_error"}, text : {FetchFailure}, machines : {<<>>}]

EstimateOk(g, m) ==
    [kind |-> "ok", text |-> "", estimated_grams |-> g, estimated_minutes |-> m]

EstimateResponses ==
    { EstimateOk(JsNum(50), JsNum(90)), EstimateOk(JsNum(70), JsNum(30)),
      EstimateOk(JsNum(0), JsNum(90)),
      EstimateOk(JsNum(50), Undefined), EstimateOk(JsStr("abc"), JsNum(90)),
      EstimateOk(JsNum(50), JsNum(0 - 5)) }
    \cup [kind : {"http_error"}, text : ErrorTexts,
          estimated_grams : {Undefined}, estimated_minutes : {Undefined}]
    \cup [kind : {"network_error"}, text : {FetchFailure},
          estimated_grams : {Undefined}, estimated_minutes : {Undefined}]

QuoteResponses ==
    [kind : {"ok"}, text : {""}, Total : {JsNum(1000), Undefined}]
    \cup [kind : {"http_error"}, text : {"detail"}, Total : {Undefined}]
    \cup [kind : {"network_error"}, text : {FetchFailure}, Total : {Undefined}]

NoEstimate ==
    [kind |-> "none", text |-> "", estimated_grams |-> Undefined,
     estimated_minutes |-> Undefined]
NoQuote == [kind |-> "none", text |-> "", Total |-> Undefined]

\* what the user can type into the number fields and pick as a file (onChange
\* fires when the content of a field changes)
GramsTexts == {"", "120", "abc"}
MinutesTexts == {"", "180"}
QtyTexts == {"", "0", "2"}
PostProTexts == {"0", "-1"}
ExtrasTexts == {"0", "abc"}
UpQtyTexts == {"0", "3"}
NoFile == "null"
Files == {"model.stl"}
Qualities == {"draft", "normal", "fine"}

----------------------------------------------------------------------------
(* Submissions: one async call per accepted submit click *)

\* A call of calcManual, estimateAndCalcUpload or calcUpload.  pc is the await
\* it is suspended at ("estimate", "quote"), "done" once it has returned;
\* materialId, machineId and
\* upQty are the values of the render the handler belongs to, which the code
\* after the first await still reads; nEst and nQuote count the requests the
\* call has sent, est is the estimate response it got, cleared says that the
\* clear button was pressed while it was suspended.
NewCall(fn, pc, nEst, nQuote) ==
    [fn |-> fn, pc |-> pc, materialId |-> materialId, machineId |-> machineId,
     upQty |-> upQty, nEst |-> nEst, nQuote |-> nQuote, est |-> NoEstimate,
     cleared |-> FALSE]

\* no call, and what is left of a call that has returned
NoCall ==
    [fn |-> "none", pc |-> "done", materialId |-> <<>>, machineId |-> <<>>,
     upQty |-> Undefined, nEst |-> 0, nQuote |-> 0, est |-> NoEstimate,
     cleared |-> FALSE]

Returned(c) == NoCall

Awaiting(pc) == {i \in DOMAIN calls : calls[i].pc = pc}
InFlight == Awaiting("estimate") \cup Awaiting("quote")

\* what the last step did: the handler that ran, the path a navigation asked
\* for, the call it ran in (0: none)
\* and that call as the step found it (as the step started it, for a submit),
\* the requests the step sent and the response it consumed
Event(name, call, rec, estimateReq, quoteReq, est, res) ==
    [name |-> name, to |-> "", key |-> "", h |-> 0 - 1, moved |-> 0 - 1,
     called |-> <<>>, call |-> call, rec |-> rec,
     estimateReq |-> estimateReq, quoteReq |-> quoteReq, est |-> est, res |-> res]

UiEvent(name) == Event(name, 0, NoCall, <<>>, <<>>, NoEstimate, NoQuote)

\* a step of the select: the key pressed, the highlight it found, the
\* highlight its handler set, and the arguments of the onChange calls it made
WidgetEvent(name, key, h, moved, called) ==
    [UiEvent(name) EXCEPT !.key = key, !.h = h, !.moved = moved, !.called = called]

----------------------------------------------------------------------------
(* localStorage *)

\* the store with nothing in it: getItem answers null
EmptyStore == [staff_token |-> Null, staff_role |-> Null, staff_username |-> Null]

getItem(st, key) == st[key]
setItem(st, key, v) == [st EXCEPT ![key] = v]
removeItem(st, key) == [st EXCEPT ![key] = Null]

\* StaffLogin before a submit: useState("") of err, useState(false) of loading;
\* pending says that a call of onSubmit is suspended at its await
LoginIdle == [err |-> "", loading |-> FALSE, pending |-> FALSE]

----------------------------------------------------------------------------
(* The requests of a mount effect *)

Pending(url) == [url |-> url, kind |-> "pending"]
Answered(url, r) == [url |-> url, kind |-> r.kind]
Urls(log) == {log[i].url : i \in DOMAIN log}

----------------------------------------------------------------------------
(* StaffQuote: the staff page *)

Alive == mount # "redirected"

\* index of the first raw group whose group_id is gid, 0 when there is none
FindGroup(gs, gid) ==
    IF \E i \in DOMAIN gs : gs[i].group_id = gid
    THEN CHOOSE i \in DOMAIN gs :
            gs[i].group_id = gid /\ \A j \in 1..(i - 1) : gs[j].group_id # gid
    ELSE 0

selectedGroup == FindGroup(materialGroups, groupId)

\* the effect on [groupId]: pick the first option of the group chosen
GroupEffect(gs, gid, mid) ==
    LET i == FindGroup(gs, gid) IN
    IF i = 0 THEN mid
    ELSE IF Len(gs[i].options) > 0 /\ gs[i].options[1].id # <<>>
         THEN gs[i].options[1].id
         ELSE mid

canManualCalc ==
    /\ materialId # <<>>
    /\ machineId # <<>>
    /\ Ge(Number(qty), JsNum(1))
    /\ Ge(Number(grams), JsNum(0))
    /\ Ge(Number(minutes), JsNum(0))

canUploadCalc ==
    /\ materialId # <<>>
    /\ machineId # <<>>
    /\ Ge(Number(upQty), JsNum(1))
    /\ file # NoFile

\* disabled={!canManualCalc || loading}, disabled={!canUploadCalc || loading}
StaffManualDisabled == ~canManualCalc \/ loading

\* faulty variant: the upload button not disabled while a call is running
StaffUploadDisabled_notLoading == ~canUploadCalc
StaffUploadDisabled == ~canUploadCalc \/ loading

\* faulty variant: the quantity left out of the body
staffQuote_unitQty(matId, machId, q, gramsPerOne, minutesPerOne, postHours, extraT) ==
    [material_id |-> matId,
     machine_id |-> machId,
     qty |-> JsNum(1),
     filament_grams |-> Number(Or(gramsPerOne, JsNum(0))),
     print_time_minutes |-> Number(Or(minutesPerOne, JsNum(0))),
     post_pro_hours |-> Number(Or(postHours, JsNum(0))),
     extras |-> Number(Or(extraT, JsNum(0)))]

\* the body staffQuote posts to staff/quote
staffQuote(matId, machId, q, gramsPerOne, minutesPerOne, postHours, extraT) ==
    [material_id |-> matId,
     machine_id |-> machId,
     qty |-> Number(Or(q, JsNum(1))),
     filament_grams |-> Number(Or(gramsPerOne, JsNum(0))),
     print_time_minutes |-> Number(Or(minutesPerOne, JsNum(0))),
     post_pro_hours |-> Number(Or(postHours, JsNum(0))),
     extras |-> Number(Or(extraT, JsNum(0)))]

\* the form staffEstimate posts to staff/estimate
staffEstimate(fileObj, matId, q) ==
    [file |-> fileObj, material_id |-> matId, quality |-> q]

\* faulty variant: the status of a response never looked at
ResponseThrows_never(r) == r.kind = "network_error"
\* if (!res.ok) throw, and a rejected fetch
ResponseThrows(r) == r.kind # "ok"

\* faulty variant: the store left as it is
AuthMeFailure_keepsToken(st) == st

\* what a failed identity check does to the store
\* (localStorage.removeItem("staff_token"))
AuthMeFailure(st) == removeItem(st, "staff_token")

\* the mount effect: the identity check answers; on a failure the browser
\* loads /staff/login (window.location.href), where no credential is asked for
StaffMount_authMe ==
    /\ page = "staff" /\ mount = "me"
    /\ \E r \in AuthMeResponses :
        IF ResponseThrows(r)
        THEN /\ store' = AuthMeFailure(store)
             /\ mountLog' = <<Answered("auth/me", r)>>
             /\ mount' = "redirected"
             /\ page' = "login"
        ELSE /\ mountLog' = <<Answered("auth/me", r), Pending("material-groups"),
                              Pending("machines")>>
             /\ mount' = "catalog"
             /\ UNCHANGED <<store, page>>
    /\ login' = LoginIdle
    /\ ev' = UiEvent("StaffMount_authMe")
    /\ UNCHANGED <<catalogVars, inputVars, sessionVars, calls, edits>>
    /\ UNCHANGED <<widgetVars, estimating>>

\* the message the mount effect's catch stores
CatalogFailure(mg, mc) ==
    IF mg.kind = "network_error" \/ mc.kind = "network_error" THEN FetchFailure
    ELSE IF mg.kind # "ok" THEN ErrorMessage(mg.text)
    ELSE ErrorMessage(mc.text)

\* faulty variant: the status of machines not looked at
CatalogThrows_groupsOnly(mg, mc) == ResponseThrows(mg)

\* if (!mgRes.ok) throw; if (!mcRes.ok) throw, after both have answered
CatalogThrows(mg, mc) == ResponseThrows(mg) \/ ResponseThrows(mc)

\* the mount effect: material-groups and machines have both answered
StaffMount_catalogOf(MG, MC) ==
    /\ page = "staff" /\ mount = "catalog"
    /\ \E mg \in MG, mc \in MC :
        /\ mountLog' = <<mountLog[1], Answered("material-groups", mg),
                         Answered("machines", mc)>>
        /\ IF CatalogThrows(mg, mc)
           THEN /\ err' = CatalogFailure(mg, mc)
                /\ mount' = "failed"
                /\ UNCHANGED <<catalogVars, progress, estGrams, estMinutes, total, loading>>
           ELSE LET gs == mg.material_groups
                    first == IF Len(gs) > 0 THEN gs[1].group_id ELSE <<>>
                    opt == IF Len(gs) > 0 /\ Len(gs[1].options) > 0
                           THEN gs[1].options[1].id ELSE <<>>
                IN /\ materialGroups' = gs
                   /\ machines' = mc.machines
                   /\ groupId' = first
                   /\ materialId' = (IF first # groupId THEN GroupEffect(gs, first, opt)
                                     ELSE opt)
                   /\ machineId' = (IF Len(mc.machines) > 0 THEN mc.machines[1].id
                                    ELSE <<>>)
                   /\ mount' = "done"
                   /\ UNCHANGED sessionVars
    /\ ev' = UiEvent("StaffMount_catalog")
    /\ UNCHANGED <<shellVars, page, inputVars, calls, edits>>
    /\ UNCHANGED <<widgetVars, estimating>>

StaffMount_catalog ==
    StaffMount_catalogOf(MaterialGroupsResponses, MachinesResponses)

\* faulty variant: the tab buttons resetting the progress bar as well
StaffTabReset_progress ==
    /\ total' = Null
    /\ err' = ""
    /\ progress' = 0
    /\ UNCHANGED <<estGrams, estMinutes>>

\* what a tab button of the staff page resets besides the tab
StaffTabReset ==
    /\ total' = Null
    /\ err' = ""
    /\ UNCHANGED <<progress, estGrams, estMinutes>>

\* the tab buttons of the staff page
StaffSetTab ==
    /\ page = "staff" /\ Alive
    /\ \E t \in {"manual", "upload"} : tab' = t
    /\ StaffTabReset
    /\ ev' = UiEvent("StaffSetTab")
    /\ UNCHANGED <<shellVars, mountLog, page, mount, catalogVars, qty, grams, minutes, postProHours, extras,
                   upQty, file, quality, loading, calls, edits>>
    /\ UNCHANGED <<widgetVars, estimating>>

\* what the clear button of the staff page resets
StaffClearReset ==
    /\ total' = Null
    /\ err' = ""
    /\ progress' = 0
    /\ estGrams' = Null
    /\ estMinutes' = Null

\* the clear button of the staff page
StaffClear ==
    /\ page = "staff" /\ Alive
    /\ StaffClearReset
    /\ calls' = [i \in DOMAIN calls |->
                    IF i \in InFlight THEN [calls[i] EXCEPT !.cleared = TRUE]
                    ELSE calls[i]]
    /\ ev' = UiEvent("StaffClear")
    /\ UNCHANGED <<shellVars, mountLog, page, mount, catalogVars, inputVars, loading, edits>>
    /\ UNCHANGED <<widgetVars, estimating>>

StaffSetGroupId ==
    /\ page = "staff" /\ Alive /\ edits < MaxEdits
    /\ \E i \in DOMAIN materialGroups :
        /\ materialGroups[i].group_id # groupId
        /\ groupId' = materialGroups[i].group_id
        /\ materialId' = IF groupId' # groupId
                         THEN GroupEffect(materialGroups, groupId', materialId)
                         ELSE materialId
    /\ edits' = edits + 1
    /\ ev' = UiEvent("StaffSetGroupId")
    /\ UNCHANGED <<shellVars, mountLog, page, mount, materialGroups, machines, machineId, inputVars,
                   sessionVars, calls>>
    /\ UNCHANGED <<widgetVars, estimating>>

StaffSetMaterialId ==
    /\ page = "staff" /\ Alive /\ edits < MaxEdits
    /\ selectedGroup # 0
    /\ \E i \in DOMAIN materialGroups[selectedGroup].options :
        /\ materialGroups[selectedGroup].options[i].id # materialId
        /\ materialId' = materialGroups[selectedGroup].options[i].id
    /\ edits' = edits + 1
    /\ ev' = UiEvent("StaffSetMaterialId")
    /\ UNCHANGED <<shellVars, mountLog, page, mount, materialGroups, machines, groupId, machineId, inputVars,
                   sessionVars, calls>>
    /\ UNCHANGED <<widgetVars, estimating>>

StaffSetMachineId ==
    /\ page = "staff" /\ Alive /\ edits < MaxEdits
    /\ \E i \in DOMAIN machines :
        /\ machines[i].id # machineId
        /\ machineId' = machines[i].id
    /\ edits' = edits + 1
    /\ ev' = UiEvent("StaffSetMachineId")
    /\ UNCHANGED <<shellVars, mountLog, page, mount, materialGroups, machines, groupId, materialId, inputVars,
                   sessionVars, calls>>
    /\ UNCHANGED <<widgetVars, estimating>>

----------------------------------------------------------------------------
(* The input fields (both pages render them per tab) *)

Edit(name) ==
    /\ Alive /\ edits < MaxEdits
    /\ edits' = edits + 1
    /\ ev' = UiEvent(name)
    /\ UNCHANGED <<shellVars, mountLog, page, mount, catalogVars, tab, sessionVars, calls>>

SetQty ==
    /\ tab = "manual" /\ Edit("SetQty")
    /\ \E v \in QtyTexts : JsStr(v) # qty /\ qty' = JsStr(v)
    /\ UNCHANGED <<grams, minutes, postProHours, extras, upQty, file, quality>>
    /\ UNCHANGED <<widgetVars, estimating>>

SetGrams ==
    /\ tab = "manual" /\ Edit("SetGrams")
    /\ \E v \in GramsTexts : JsStr(v) # grams /\ grams' = JsStr(v)
    /\ UNCHANGED <<qty, minutes, postProHours, extras, upQty, file, quality>>
    /\ UNCHANGED <<widgetVars, estimating>>

SetMinutes ==
    /\ tab = "manual" /\ Edit("SetMinutes")
    /\ \E v \in MinutesTexts : JsStr(v) # minutes /\ minutes' = JsStr(v)
    /\ UNCHANGED <<qty, grams, postProHours, extras, upQty, file, quality>>
    /\ UNCHANGED <<widgetVars, estimating>>

SetPostProHours ==
    /\ page = "staff" /\ tab = "manual" /\ Edit("SetPostProHours")
    /\ \E v \in PostProTexts : JsStr(v) # postProHours /\ postProHours' = JsStr(v)
    /\ UNCHANGED <<qty, grams, minutes, extras, upQty, file, quality>>
    /\ UNCHANGED <<widgetVars, estimating>>

SetExtras ==
    /\ page = "staff" /\ tab = "manual" /\ Edit("SetExtras")
    /\ \E v \in ExtrasTexts : JsStr(v) # extras /\ extras' = JsStr(v)
    /\ UNCHANGED <<qty, grams, minutes, postProHours, upQty, file, quality>>
    /\ UNCHANGED <<widgetVars, estimating>>

SetUpQty ==
    /\ page = "staff" /\ tab = "upload" /\ Edit("SetUpQty")
    /\ \E v \in UpQtyTexts : JsStr(v) # upQty /\ upQty' = JsStr(v)
    /\ UNCHANGED <<qty, grams, minutes, postProHours, extras, file, quality>>
    /\ UNCHANGED <<widgetVars, estimating>>

SetFile ==
    /\ tab = "upload" /\ Edit("SetFile")
    /\ \E f \in Files \cup {NoFile} : f # file /\ file' = f
    /\ UNCHANGED <<qty, grams, minutes, postProHours, extras, upQty, quality>>
    /\ UNCHANGED <<widgetVars, estimating>>

SetQuality ==
    /\ (page = "staff" => tab = "upload") /\ Edit("SetQuality")
    /\ \E q \in Qualities : q # quality /\ quality' = q
    /\ UNCHANGED <<qty, grams, minutes, postProHours, extras, upQty, file>>
    /\ UNCHANGED <<widgetVars, estimating>>

----------------------------------------------------------------------------
(* StaffQuote: the two submissions *)


\* faulty variant: calcManual without its setTotal(null)
StaffQuote_calcManual_keepsTotal ==
    /\ page = "staff" /\ Alive /\ tab = "manual"
    /\ ~StaffManualDisabled
    /\ Len(calls) < MaxSubmits
    /\ err' = ""
    /\ loading' = TRUE
    /\ calls' = Append(calls, NewCall("calcManual", "quote", 0, 1))
    /\ ev' = Event("StaffQuote_calcManual", Len(calls) + 1,
                   NewCall("calcManual", "quote", 0, 1), <<>>,
                   <<staffQuote(materialId, machineId, qty, grams, minutes,
                                postProHours, extras)>>,
                   NoEstimate, NoQuote)
    /\ UNCHANGED <<shellVars, mountLog, page, mount, catalogVars, inputVars, progress, estGrams, estMinutes,
                   total, edits>>
    /\ UNCHANGED <<widgetVars, estimating>>
\* click on the manual submit button: calcManual up to its await
StaffQuote_calcManual ==
    /\ page = "staff" /\ Alive /\ tab = "manual"
    /\ ~StaffManualDisabled
    /\ Len(calls) < MaxSubmits
    /\ err' = ""
    /\ total' = Null
    /\ loading' = TRUE
    /\ calls' = Append(calls, NewCall("calcManual", "quote", 0, 1))
    /\ ev' = Event("StaffQuote_calcManual", Len(calls) + 1,
                   NewCall("calcManual", "quote", 0, 1), <<>>,
                   <<staffQuote(materialId, machineId, qty, grams, minutes,
                                postProHours, extras)>>,
                   NoEstimate, NoQuote)
    /\ UNCHANGED <<shellVars, mountLog, page, mount, catalogVars, inputVars, progress, estGrams, estMinutes,
                   edits>>
    /\ UNCHANGED <<widgetVars, estimating>>

\* click on the upload submit button: estimateAndCalcUpload up to its first await
estimateAndCalcUpload ==
    /\ page = "staff" /\ Alive /\ tab = "upload"
    /\ ~StaffUploadDisabled
    /\ Len(calls) < MaxSubmits
    /\ err' = ""
    /\ total' = Null
    /\ estGrams' = Null
    /\ estMinutes' = Null
    /\ progress' = 10
    /\ loading' = TRUE
    /\ calls' = Append(calls, NewCall("estimateAndCalcUpload", "estimate", 1, 0))
    /\ ev' = Event("estimateAndCalcUpload", Len(calls) + 1,
                   NewCall("estimateAndCalcUpload", "estimate", 1, 0),
                   <<staffEstimate(file, materialId, quality)>>, <<>>,
                   NoEstimate, NoQuote)
    /\ UNCHANGED <<shellVars, mountLog, page, mount, catalogVars, inputVars, edits>>
    /\ UNCHANGED <<widgetVars, estimating>>

\* the figures the upload path reads from the estimate response
EstimateFigure(v) == Number(Or(v, JsNum(0)))

\* faulty variant: the quantity of the manual tab sent on the upload path
StaffUploadQuote_manualQty(c, g1, m1) ==
    staffQuote(c.materialId, c.machineId, qty, g1, m1, JsNum(0), JsNum(0))

\* faulty variant: the figures shown from the estimate before sent again
StaffUploadQuote_shown(c, g1, m1) ==
    staffQuote(c.materialId, c.machineId, c.upQty, estGrams, estMinutes, JsNum(0), JsNum(0))

\* faulty variant: the selections read when the estimate answers, not those
\* of the render of the submit
StaffUploadQuote_current(c, g1, m1) ==
    staffQuote(materialId, machineId, upQty, g1, m1, JsNum(0), JsNum(0))
\* the quote request estimateAndCalcUpload builds from the estimate
StaffUploadQuote(c, g1, m1) ==
    staffQuote(c.materialId, c.machineId, c.upQty, g1, m1, JsNum(0), JsNum(0))

\* staff/estimate answers: estimateAndCalcUpload from its first to its second await
StaffEstimateResponse ==
    /\ page = "staff" /\ Alive
    /\ \E i \in Awaiting("estimate"), r \in EstimateResponses :
        LET c == calls[i]
            g1 == EstimateFigure(r.estimated_grams)
            m1 == EstimateFigure(r.estimated_minutes)
        IN IF ResponseThrows(r)
           THEN /\ err' = ErrorMessage(r.text)
                /\ progress' = 0
                /\ loading' = FALSE
                /\ calls' = [calls EXCEPT ![i] = Returned([c EXCEPT !.est = r])]
                /\ ev' = Event("StaffEstimateResponse", i, c, <<>>, <<>>, r, NoQuote)
                /\ UNCHANGED <<estGrams, estMinutes, total>>
           ELSE /\ progress' = 65
                /\ estGrams' = g1
                /\ estMinutes' = m1
                /\ calls' = [calls EXCEPT ![i] =
                        [c EXCEPT !.pc = "quote", !.est = r, !.nQuote = @ + 1]]
                /\ ev' = Event("StaffEstimateResponse", i, c, <<>>,
                               <<StaffUploadQuote(c, g1, m1)>>, r, NoQuote)
                /\ UNCHANGED <<total, err, loading>>
    /\ UNCHANGED <<shellVars, mountLog, page, mount, catalogVars, inputVars, edits>>
    /\ UNCHANGED <<widgetVars, estimating>>

\* staff/quote answers: the rest of calcManual or of estimateAndCalcUpload
StaffQuoteResponse ==
    /\ page = "staff" /\ Alive
    /\ \E i \in Awaiting("quote"), r \in QuoteResponses :
        LET c == calls[i]
            upload == c.fn = "estimateAndCalcUpload"
        IN /\ IF ResponseThrows(r)
              THEN /\ err' = ErrorMessage(r.text)
                   /\ progress' = (IF upload THEN 0 ELSE progress)
                   /\ UNCHANGED total
              ELSE /\ total' = NullishToNull(r.Total)
                   /\ progress' = (IF upload THEN 100 ELSE progress)
                   /\ UNCHANGED err
           /\ loading' = FALSE
           /\ calls' = [calls EXCEPT ![i] = Returned(c)]
           /\ ev' = Event("StaffQuoteResponse", i, c, <<>>, <<>>, c.est, r)
    /\ UNCHANGED <<shellVars, mountLog, page, mount, catalogVars, inputVars, estGrams, estMinutes, edits>>
    /\ UNCHANGED <<widgetVars, estimating>>

----------------------------------------------------------------------------
(* Label helpers: prettifyKey and stripPrefix.                              *)
(* An id is a tuple of atoms; atoms are chosen so that no keyword of the    *)
(* code ("pla", "petg", "tpu", "+", "_") is part of a longer atom.  The     *)
(* Persian words of COLOR_FA and TOKEN_MAP are written in Latin letters.    *)

\* toLowerCase on an atom
LowerAtom(a) ==
    CASE a = "PLA" -> "pla" [] a = "PETG" -> "petg" [] a = "TPU" -> "tpu"
      [] a = "Black" -> "black" [] OTHER -> a

toLowerCase(id) == [i \in DOMAIN id |-> LowerAtom(id[i])]

startsWith(id, a) == Len(id) > 0 /\ id[1] = a
includes(id, a) == \E i \in DOMAIN id : id[i] = a

COLOR_FA ==
    [a \in {"black", "white", "red"} |->
        CASE a = "black" -> "meshki" [] a = "white" -> "sefid" [] a = "red" -> "ghermez"]

TOKEN_MAP ==
    [a \in {"pla", "petg", "tpu", "silk", "fast"} |->
        CASE a = "pla" -> "PLA" [] a = "petg" -> "PETG" [] a = "tpu" -> "TPU"
          [] a = "silk" -> "silk_fa" [] a = "fast" -> "sari"]

Separators == {"_", "-", " "}

\* one token of prettifyKey: colors, then known tokens, then nnA, else as it is
PrettyToken(a) ==
    LET low == LowerAtom(a) IN
    IF low \in DOMAIN COLOR_FA THEN COLOR_FA[low]
    ELSE IF low \in DOMAIN TOKEN_MAP THEN TOKEN_MAP[low]
    ELSE IF a = "95a" THEN "95A"
    ELSE a

\* prettifyKey: separators dropped, every token translated
RECURSIVE prettifyKey(_)
prettifyKey(raw) ==
    IF raw = <<>> THEN <<>>
    ELSE IF Head(raw) \in Separators THEN prettifyKey(Tail(raw))
    ELSE <<PrettyToken(Head(raw))>> \o prettifyKey(Tail(raw))

\* stripPrefix(id, groupKey): drop "<groupKey>_" from the front, case-insensitively
stripPrefix(id, groupKey) ==
    LET g == groupKey \o <<"_">> IN
    IF groupKey # <<>> /\ Len(id) >= Len(g)
       /\ toLowerCase(SubSeq(id, 1, Len(g))) = toLowerCase(g)
    THEN SubSeq(id, Len(g) + 1, Len(id))
    ELSE id

\* the place of a label token in the "fa" collation: digits, then the Arabic
\* script in Persian alphabetical order, then Latin without regard to case
TokenRank(t) ==
    CASE t = "sari" -> 1 [] t = "sefid" -> 2 [] t = "silk_fa" -> 3
      [] t = "ghermez" -> 4 [] t = "meshki" -> 5 [] t = "95A" -> 0
      [] t = "yakhi" -> 7
      [] t = "abs" -> 10 [] t = "PETG" -> 11 [] t = "PLA" -> 12
      [] t = "TPU" -> 13 [] t = "wtwo" -> 14
      [] OTHER -> 9

\* a.localeCompare(b, "fa") < 0 on labels
RECURSIVE LabelBefore(_, _)
LabelBefore(a, b) ==
    IF b = <<>> THEN FALSE
    ELSE IF a = <<>> THEN TRUE
    ELSE IF TokenRank(Head(a)) # TokenRank(Head(b))
         THEN TokenRank(Head(a)) < TokenRank(Head(b))
    ELSE LabelBefore(Tail(a), Tail(b))

----------------------------------------------------------------------------
(* PublicQuote: the projection of the raw catalog onto the three families *)

DEFAULT_PUBLIC_MACHINE_ID == <<"anycubic_kobra_s1_combo">>

FamilyKeys == <<"pla", "petg", "tpu">>

\* faulty variant: the keywords tested in the order pla, petg, tpu
FamilyOf_plaFirst(group_id) ==
    LET gid == toLowerCase(group_id) IN
    IF gid = <<>> \/ startsWith(gid, "+") THEN "none"
    ELSE IF includes(gid, "pla") THEN "pla"
    ELSE IF includes(gid, "petg") THEN "petg"
    ELSE IF includes(gid, "tpu") THEN "tpu"
    ELSE "none"

\* the family a raw group id belongs to, "none" when it is dropped
FamilyOf(group_id) ==
    LET gid == toLowerCase(group_id) IN
    IF gid = <<>> \/ startsWith(gid, "+") THEN "none"
    ELSE IF includes(gid, "petg") THEN "petg"
    ELSE IF includes(gid, "tpu") THEN "tpu"
    ELSE IF includes(gid, "pla") THEN "pla"
    ELSE "none"

\* faulty variant: the reserved "+" ids let through
RECURSIVE addOpts_keepPlus(_, _)
addOpts_keepPlus(kept, opts) ==
    IF opts = <<>> THEN kept
    ELSE LET opt == Head(opts) IN
         IF opt.id = <<>> \/ \E i \in DOMAIN kept : kept[i].id = opt.id
         THEN addOpts_keepPlus(kept, Tail(opts))
         ELSE addOpts_keepPlus(Append(kept, opt), Tail(opts))

\* faulty variant: an id already kept is added again
RECURSIVE addOpts_noDedup(_, _)
addOpts_noDedup(kept, opts) ==
    IF opts = <<>> THEN kept
    ELSE LET opt == Head(opts) IN
         IF opt.id = <<>> \/ startsWith(opt.id, "+")
         THEN addOpts_noDedup(kept, Tail(opts))
         ELSE addOpts_noDedup(Append(kept, opt), Tail(opts))

\* addOpt over a list of options: skip empty and "+" ids, keep first occurrences
RECURSIVE addOpts(_, _)
addOpts(kept, opts) ==
    IF opts = <<>> THEN kept
    ELSE LET opt == Head(opts) IN
         IF opt.id = <<>> \/ startsWith(opt.id, "+")
            \/ \E i \in DOMAIN kept : kept[i].id = opt.id
         THEN addOpts(kept, Tail(opts))
         ELSE addOpts(Append(kept, opt), Tail(opts))

\* the options the raw groups contribute to family key, in raw order
RECURSIVE base(_, _, _)
base(gs, key, kept) ==
    IF gs = <<>> THEN kept
    ELSE IF FamilyOf(Head(gs).group_id) = key
         THEN base(Tail(gs), key, addOpts(kept, Head(gs).options))
         ELSE base(Tail(gs), key, kept)

\* the comparator of the option sort
SortKey(opt, prefix) == prettifyKey(stripPrefix(opt.id, prefix))

\* faulty variant: a sort that is not stable (an option goes in front of
\* the options that compare equal to it)
RECURSIVE insertOpt_unstable(_, _, _)
insertOpt_unstable(sorted, opt, prefix) ==
    IF sorted = <<>> THEN <<opt>>
    ELSE IF ~LabelBefore(SortKey(Head(sorted), prefix), SortKey(opt, prefix))
         THEN <<opt>> \o sorted
         ELSE <<Head(sorted)>> \o insertOpt_unstable(Tail(sorted), opt, prefix)

\* Array.prototype.sort (stable) by the comparator: insertion from the left
RECURSIVE insertOpt(_, _, _)
insertOpt(sorted, opt, prefix) ==
    IF sorted = <<>> THEN <<opt>>
    ELSE IF LabelBefore(SortKey(opt, prefix), SortKey(Head(sorted), prefix))
         THEN <<opt>> \o sorted
         ELSE <<Head(sorted)>> \o insertOpt(Tail(sorted), opt, prefix)

RECURSIVE sortOpts(_, _, _)
sortOpts(done, opts, prefix) ==
    IF opts = <<>> THEN done
    ELSE sortOpts(insertOpt(done, Head(opts), prefix), Tail(opts), prefix)

\* faulty variant: the families without an option shown as well
RECURSIVE groupsFrom_showEmpty(_, _)
groupsFrom_showEmpty(gs, k) ==
    IF k > Len(FamilyKeys) THEN <<>>
    ELSE << [group_id |-> <<FamilyKeys[k]>>,
             options |-> sortOpts(<<>>, base(gs, FamilyKeys[k], <<>>), <<FamilyKeys[k]>>)] >>
         \o groupsFrom_showEmpty(gs, k + 1)

\* the groups memo: families in the order pla, petg, tpu, empty ones hidden
RECURSIVE groupsFrom(_, _)
groupsFrom(gs, k) ==
    IF k > Len(FamilyKeys) THEN <<>>
    ELSE LET opts == base(gs, FamilyKeys[k], <<>>) IN
         (IF opts = <<>> THEN <<>>
          ELSE << [group_id |-> <<FamilyKeys[k]>>,
                   options |-> sortOpts(<<>>, opts, <<FamilyKeys[k]>>)] >>)
         \o groupsFrom(gs, k + 1)

groups(gs) == groupsFrom(gs, 1)

\* materialOptions of the family gid of the projection of gs (empty when none)
materialOptions(gs, gid) ==
    LET fs == groups(gs)
        i == FindGroup(fs, gid)
    IN IF i = 0 THEN <<>>
       ELSE SelectSeq(fs[i].options, LAMBDA o : o.id # <<>> /\ ~startsWith(o.id, "+"))

\* the effect on [groupId] of the public page
PublicGroupEffect(gs, gid, mid) ==
    LET opts == materialOptions(gs, gid) IN
    IF FindGroup(groups(gs), gid) = 0 THEN mid
    ELSE IF \E i \in DOMAIN opts : opts[i].id = mid THEN mid
    ELSE IF opts # <<>> THEN opts[1].id ELSE <<>>

\* materialLabel: the label the material select shows for option o of the
\* family key: title, else name, else the prettified id without the prefix
materialLabel(o, key) ==
    IF o.title # "" THEN <<o.title>>
    ELSE IF o.name # "" THEN <<o.name>>
    ELSE LET raw == stripPrefix(o.id, key) IN
         prettifyKey(IF raw # <<>> THEN raw ELSE o.id)

\* materialSelectOptions: what the material select of the public page is
\* given, {value: String(o.id), label: materialLabel(o)} for each option
materialSelectOptions(gs, gid) ==
    LET opts == materialOptions(gs, gid) IN
    [i \in DOMAIN opts |-> [value |-> opts[i].id, label |-> materialLabel(opts[i], gid)]]
----------------------------------------------------------------------------
(* PublicQuote: the public page *)

canSubmit ==
    IF materialId = <<>> THEN FALSE
    ELSE IF tab = "upload" THEN file # NoFile
    ELSE LET g == Number(Or(grams, JsNum(0)))
             m == Number(Or(minutes, JsNum(0)))
             q == Number(Or(qty, JsNum(1)))
         IN /\ IsFinite(g) /\ IsFinite(m) /\ IsFinite(q)
            /\ Gt(g, JsNum(0)) /\ Gt(m, JsNum(0)) /\ Gt(q, JsNum(0))

\* disabled={!canSubmit || loading}
PublicSubmitDisabled == ~canSubmit \/ loading

\* the body quote posts to quote
quote(matId, gramsPerOne, minutesPerOne, qtyVal) ==
    [material_id |-> matId,
     machine_id |-> DEFAULT_PUBLIC_MACHINE_ID,
     qty |-> Number(Or(qtyVal, JsNum(1))),
     filament_grams |-> Number(Or(gramsPerOne, JsNum(0))),
     print_time_minutes |-> Number(Or(minutesPerOne, JsNum(0))),
     post_pro_hours |-> JsNum(0),
     extras |-> JsNum(0)]

\* the form estimateFromApi posts to estimate
estimateFromApi(fileObj, matId, q) ==
    [file |-> fileObj, material_id |-> matId, quality |-> q]

\* the mount effect of the public page: material-groups has answered
PublicMount_catalogOf(MG) ==
    /\ page = "public" /\ mount = "catalog"
    /\ \E mg \in MG :
        IF ResponseThrows(mg)
        THEN /\ err' = ErrorMessage(mg.text)
             /\ mount' = "failed"
             /\ mountLog' = <<Answered("material-groups", mg)>>
             /\ UNCHANGED <<catalogVars, progress, estGrams, estMinutes, total, loading>>
        ELSE LET gs == mg.material_groups
                 nonEmpty == {k \in DOMAIN FamilyKeys : base(gs, FamilyKeys[k], <<>>) # <<>>}
                 firstKey == IF nonEmpty = {} THEN "pla"
                             ELSE FamilyKeys[CHOOSE k \in nonEmpty : \A j \in nonEmpty : k <= j]
                 opts == base(gs, firstKey, <<>>)
                 first == IF opts = <<>> THEN <<>> ELSE opts[1].id
             IN /\ materialGroups' = gs
                /\ groupId' = <<firstKey>>
                /\ materialId' = (IF groupId' # groupId
                                  THEN PublicGroupEffect(gs, groupId', first)
                                  ELSE first)
                /\ mount' = "done"
                /\ mountLog' = <<Answered("material-groups", mg)>>
                /\ UNCHANGED <<machines, machineId, sessionVars>>
    /\ ev' = UiEvent("PublicMount_catalog")
    /\ UNCHANGED <<shellVars, page, inputVars, calls, edits>>
    /\ UNCHANGED <<widgetVars, estimating>>

PublicMount_catalog == PublicMount_catalogOf(MaterialGroupsResponses)

\* what a tab button of the public page resets besides the tab
PublicTabReset == UNCHANGED <<total, err, progress>>

\* the tab buttons of the public page
PublicSetTab ==
    /\ page = "public"
    /\ \E t \in {"upload", "manual"} : tab' = t
    /\ PublicTabReset
    /\ ev' = UiEvent("PublicSetTab")
    /\ UNCHANGED <<shellVars, mountLog, page, mount, catalogVars, qty, grams, minutes, postProHours, extras,
                   upQty, file, quality, estGrams, estMinutes, loading, calls, edits>>
    /\ UNCHANGED <<widgetVars, estimating>>

\* the family select of the public page
PublicSetGroupId ==
    /\ page = "public" /\ edits < MaxEdits
    /\ \E i \in DOMAIN groups(materialGroups) :
        /\ groups(materialGroups)[i].group_id # groupId
        /\ groupId' = groups(materialGroups)[i].group_id
        /\ materialId' = IF groupId' # groupId
                         THEN PublicGroupEffect(materialGroups, groupId', materialId)
                         ELSE materialId
    /\ edits' = edits + 1
    /\ ev' = UiEvent("PublicSetGroupId")
    /\ UNCHANGED <<shellVars, mountLog, page, mount, materialGroups, machines, machineId, inputVars,
                   sessionVars, calls>>
    /\ UNCHANGED <<widgetVars, estimating>>

\* the material select of the public page
PublicSetMaterialId ==
    /\ page = "public" /\ edits < MaxEdits
    /\ \E i \in DOMAIN materialOptions(materialGroups, groupId) :
        /\ materialOptions(materialGroups, groupId)[i].id # materialId
        /\ materialId' = materialOptions(materialGroups, groupId)[i].id
    /\ edits' = edits + 1
    /\ ev' = UiEvent("PublicSetMaterialId")
    /\ UNCHANGED <<shellVars, mountLog, page, mount, materialGroups, machines, groupId, machineId, inputVars,
                   sessionVars, calls>>
    /\ UNCHANGED <<widgetVars, estimating>>

\* faulty variant: the quantity field passed on the upload path
UploadQtyVal_field == Number(qty)
\* the quantity calcUpload prices: quote({ ..., qtyVal: 1 })
UploadQtyVal == JsNum(1)

\* faulty variant: the figures of the estimate not looked at
EstimateUsable_any(g1, m1) == TRUE
\* the estimate of calcUpload is usable: !(g1 > 0) || !(m1 > 0) throws
EstimateUsable(g1, m1) == Gt(g1, JsNum(0)) /\ Gt(m1, JsNum(0))
EstimateUnusableMessage == "could not estimate the weight/time of the file"

\* calcManual's own check of its inputs
ManualInputsOk(g, m, q) == Gt(g, JsNum(0)) /\ Gt(m, JsNum(0)) /\ Gt(q, JsNum(0))
ManualInputsMessage == "enter weight, time and quantity correctly"

\* click on submit in the upload tab: calcUpload up to its first await
calcUpload ==
    /\ page = "public" /\ tab = "upload"
    /\ ~PublicSubmitDisabled
    /\ Len(calls) < MaxSubmits
    /\ err' = ""
    /\ total' = Null
    /\ progress' = 10
    /\ loading' = TRUE
    /\ calls' = Append(calls, NewCall("calcUpload", "estimate", 1, 0))
    /\ ev' = Event("calcUpload", Len(calls) + 1,
                   NewCall("calcUpload", "estimate", 1, 0),
                   <<estimateFromApi(file, materialId, quality)>>, <<>>,
                   NoEstimate, NoQuote)
    /\ UNCHANGED <<shellVars, mountLog, page, mount, catalogVars, inputVars, estGrams, estMinutes, edits>>
    /\ UNCHANGED <<widgetVars, estimating>>

\* click on submit in the manual tab: calcManual up to its await (or its throw)
PublicQuote_calcManual ==
    /\ page = "public" /\ tab = "manual"
    /\ ~PublicSubmitDisabled
    /\ Len(calls) < MaxSubmits
    /\ LET g == Number(Or(grams, JsNum(0)))
           m == Number(Or(minutes, JsNum(0)))
           q == Number(Or(qty, JsNum(1)))
       IN IF ManualInputsOk(g, m, q)
          THEN /\ err' = ""
               /\ total' = Null
               /\ progress' = 40
               /\ loading' = TRUE
               /\ calls' = Append(calls, NewCall("calcManual", "quote", 0, 1))
               /\ ev' = Event("PublicQuote_calcManual", Len(calls) + 1,
                              NewCall("calcManual", "quote", 0, 1), <<>>,
                              <<quote(materialId, g, m, q)>>, NoEstimate, NoQuote)
          ELSE /\ err' = ManualInputsMessage
               /\ total' = Null
               /\ progress' = 0
               /\ loading' = FALSE
               /\ calls' = Append(calls, Returned(NewCall("calcManual", "done", 0, 0)))
               /\ ev' = Event("PublicQuote_calcManual", Len(calls) + 1,
                              NewCall("calcManual", "done", 0, 0), <<>>, <<>>,
                              NoEstimate, NoQuote)
    /\ UNCHANGED <<shellVars, mountLog, page, mount, catalogVars, inputVars, estGrams, estMinutes, edits>>
    /\ UNCHANGED <<widgetVars, estimating>>

\* estimate answers: calcUpload from its first to its second await
PublicEstimateResponse ==
    /\ page = "public"
    /\ \E i \in Awaiting("estimate"), r \in EstimateResponses :
        LET c == calls[i]
            g1 == EstimateFigure(r.estimated_grams)
            m1 == EstimateFigure(r.estimated_minutes)
        IN IF ResponseThrows(r) \/ ~EstimateUsable(g1, m1)
           THEN /\ err' = (IF ResponseThrows(r) THEN ErrorMessage(r.text)
                           ELSE EstimateUnusableMessage)
                /\ progress' = 0
                /\ loading' = FALSE
                /\ calls' = [calls EXCEPT ![i] = Returned([c EXCEPT !.est = r])]
                /\ ev' = Event("PublicEstimateResponse", i, c, <<>>, <<>>, r, NoQuote)
                /\ UNCHANGED total
           ELSE /\ progress' = 65
                /\ calls' = [calls EXCEPT ![i] =
                        [c EXCEPT !.pc = "quote", !.est = r, !.nQuote = @ + 1]]
                /\ ev' = Event("PublicEstimateResponse", i, c, <<>>,
                               <<quote(c.materialId, g1, m1, UploadQtyVal)>>, r, NoQuote)
                /\ UNCHANGED <<total, err, loading>>
    /\ UNCHANGED <<shellVars, mountLog, page, mount, catalogVars, inputVars, estGrams, estMinutes, edits>>
    /\ UNCHANGED <<widgetVars, estimating>>

\* quote answers: the rest of calcUpload or of calcManual
PublicQuoteResponse ==
    /\ page = "public"
    /\ \E i \in Awaiting("quote"), r \in QuoteResponses :
        /\ IF ResponseThrows(r)
           THEN /\ err' = ErrorMessage(r.text)
                /\ progress' = 0
                /\ UNCHANGED total
           ELSE /\ total' = NullishToNull(r.Total)
                /\ progress' = 100
                /\ UNCHANGED err
        /\ loading' = FALSE
        /\ calls' = [calls EXCEPT ![i] = Returned(calls[i])]
        /\ ev' = Event("PublicQuoteResponse", i, calls[i], <<>>, <<>>, calls[i].est, r)
    /\ UNCHANGED <<shellVars, mountLog, page, mount, catalogVars, inputVars, estGrams, estMinutes, edits>>
    /\ UNCHANGED <<widgetVars, estimating>>

----------------------------------------------------------------------------
(* The routes, their guards and the login page (StaffLogin.jsx) *)

\* faulty variant: the staff page rendered without a look at the store
RequireStaff_open(st) == "/staff"

\* RequireStaff: the path rendered for /staff
RequireStaff(st) ==
    IF ~Truthy(getItem(st, "staff_token")) THEN "/staff/login" ELSE "/staff"

\* faulty variant: the role not compared
RequireAdmin_tokenOnly(st) ==
    IF ~Truthy(getItem(st, "staff_token")) THEN "/staff/login" ELSE "/admin"

\* RequireAdmin: the path rendered for /admin, or the path it redirects to
RequireAdmin(st) ==
    IF ~Truthy(getItem(st, "staff_token")) THEN "/staff/login"
    ELSE IF getItem(st, "staff_role") # JsStr("admin") THEN "/staff"
    ELSE "/admin"

\* the locations a user can ask for; "/nowhere" stands for every other path
Paths == {"/", "/staff/login", "/staff", "/admin", "/nowhere"}

\* <Routes>: the path whose element ends up rendered for a location
Routes(path, st) ==
    CASE path = "/staff" -> RequireStaff(st)
      [] path = "/admin" ->
            (IF RequireAdmin(st) = "/staff" THEN RequireStaff(st) ELSE RequireAdmin(st))
      [] path = "/staff/login" -> "/staff/login"
      [] OTHER -> "/"

\* the component a path renders
PageOf(path) ==
    CASE path = "/staff" -> "staff"
      [] path = "/admin" -> "admin"
      [] path = "/staff/login" -> "login"
      [] OTHER -> "public"

\* the state a component starts with
FreshMount(p) ==
    CASE p = "staff" -> "me" [] p = "public" -> "catalog" [] OTHER -> "none"
FreshMountLog(p) ==
    CASE p = "staff" -> <<Pending("auth/me")>>
      [] p = "public" -> <<Pending("material-groups")>>
      [] OTHER -> <<>>
FreshTab(p) == IF p = "staff" THEN "manual" ELSE "upload"
FreshQty(p) == IF p = "staff" THEN JsNum(1) ELSE JsStr("1")

\* component p is rendered anew: its state is the useState defaults and its
\* mount effect has sent its first request
Mount(p) ==
    /\ page' = p
    /\ mount' = FreshMount(p)
    /\ mountLog' = FreshMountLog(p)
    /\ materialGroups' = <<>>
    /\ machines' = <<>>
    /\ groupId' = <<>>
    /\ materialId' = <<>>
    /\ machineId' = <<>>
    /\ tab' = FreshTab(p)
    /\ qty' = FreshQty(p)
    /\ grams' = JsStr("")
    /\ minutes' = JsStr("")
    /\ postProHours' = JsStr("0")
    /\ extras' = JsStr("0")
    /\ upQty' = JsNum(1)
    /\ file' = NoFile
    /\ quality' = "normal"
    /\ progress' = 0
    /\ estGrams' = Null
    /\ estMinutes' = Null
    /\ total' = Null
    /\ err' = ""
    /\ loading' = FALSE
    /\ calls' = <<>>
    /\ UNCHANGED edits

\* a step of the routes: the handler, and the path asked for
NavEvent(name, to) == [UiEvent(name) EXCEPT !.to = to]

\* the user loads a location (address bar, reload): the guards decide from
\* the store as it is now; a pending continuation of the page left is gone
Navigate ==
    \E to \in Paths :
        /\ Mount(PageOf(Routes(to, store)))
        /\ login' = LoginIdle
        /\ ev' = NavEvent("Navigate", to)
        /\ UNCHANGED store
    /\ UNCHANGED <<widgetVars, estimating>>

\* AdminConfig: the Staff and Public buttons, nav(..., { replace: true })
AdminConfig_nav ==
    /\ page = "admin"
    /\ \E to \in {"/staff", "/"} :
        /\ Mount(PageOf(Routes(to, store)))
        /\ ev' = NavEvent("AdminConfig_nav", to)
    /\ UNCHANGED <<store, login>>
    /\ UNCHANGED <<widgetVars, estimating>>

\* the logout button of the staff page: removeItem("staff_token"), then the
\* browser loads /staff/login
StaffLogout ==
    /\ page = "staff" /\ Alive
    /\ store' = removeItem(store, "staff_token")
    /\ Mount("login")
    /\ login' = LoginIdle
    /\ ev' = NavEvent("StaffLogout", "/staff/login")
    /\ UNCHANGED <<widgetVars, estimating>>

\* POST auth/login answers
LoginBody(token, role, username) ==
    [kind |-> "ok", text |-> "", access_token |-> token, role |-> role,
     username |-> username]

LoginResponses ==
    { LoginBody(t, r, u) : t \in {JsStr("tok"), Undefined},
                           r \in {JsStr("admin"), JsStr("staff"), Undefined},
                           u \in {JsStr("ali"), Undefined} }
    \cup { [LoginBody(Undefined, Undefined, Undefined) EXCEPT !.kind = k, !.text = x] :
             k \in {"http_error"}, x \in ErrorTexts }
    \cup { [LoginBody(Undefined, Undefined, Undefined)
              EXCEPT !.kind = "network_error", !.text = FetchFailure] }

\* localStorage.setItem stores the string of its value
StoredString(v) ==
    CASE v.t = "undefined" -> JsStr("undefined")
      [] v.t = "null" -> JsStr("null")
      [] OTHER -> v

\* faulty variant: the role of the response not stored
LoginWrites_tokenOnly(st, j) ==
    LET st1 == setItem(st, "staff_token", StoredString(j.access_token))
    IN IF Truthy(j.username)
       THEN setItem(st1, "staff_username", StoredString(j.username))
       ELSE st1
\* what onSubmit writes for a 2xx body j
LoginWrites(st, j) ==
    LET st1 == setItem(st, "staff_token", StoredString(j.access_token))
        st2 == setItem(st1, "staff_role", StoredString(Or(j.role, JsStr("staff"))))
    IN IF Truthy(j.username)
       THEN setItem(st2, "staff_username", StoredString(j.username))
       ELSE st2

\* where onSubmit navigates to
LoginTarget(j) == IF j.role = JsStr("admin") THEN "/admin" ELSE "/staff"

\* StaffLogin onSubmit, up to its await
StaffLogin_onSubmit ==
    /\ page = "login" /\ ~login.loading
    /\ login' = [err |-> "", loading |-> TRUE, pending |-> TRUE]
    /\ ev' = UiEvent("StaffLogin_onSubmit")
    /\ UNCHANGED <<store, mountLog, page, mount, catalogVars, inputVars, sessionVars,
                   calls, edits>>
    /\ UNCHANGED <<widgetVars, estimating>>

\* auth/login answers: onSubmit after its await.  The call outlives the login
\* page when the back button was pressed in between
StaffLogin_response ==
    /\ login.pending
    /\ \E j \in LoginResponses :
        IF ResponseThrows(j)
        THEN /\ login' = (IF page = "login"
                          THEN [err |-> ErrorMessage(j.text), loading |-> FALSE,
                                pending |-> FALSE]
                          ELSE LoginIdle)
             /\ ev' = UiEvent("StaffLogin_response")
             /\ UNCHANGED <<store, mountLog, page, mount, catalogVars, inputVars,
                            sessionVars, calls, edits>>
        ELSE /\ store' = LoginWrites(store, j)
             /\ Mount(PageOf(Routes(LoginTarget(j), store')))
             /\ login' = LoginIdle
             /\ ev' = NavEvent("StaffLogin_response", LoginTarget(j))
    /\ UNCHANGED <<widgetVars, estimating>>

\* the back button of the login page: the three keys removed, nav("/")
StaffLogin_back ==
    /\ page = "login"
    /\ store' = removeItem(removeItem(removeItem(store, "staff_token"), "staff_role"),
                           "staff_username")
    /\ Mount("public")
    /\ login' = [LoginIdle EXCEPT !.pending = login.pending]
    /\ ev' = NavEvent("StaffLogin_back", "/")
    /\ UNCHANGED <<widgetVars, estimating>>

----------------------------------------------------------------------------
(* CSelect: the selection widget *)

\* a page whose selects have never been opened
WidgetIdle ==
    /\ open = FALSE
    /\ highlight = 0 - 1
    /\ value = JsStr("")
    /\ options = <<>>
    /\ disabled = FALSE
    /\ focused = "page"

\* faulty variant: the value handed over as it is when it is text, and as
\* nothing when it is not
String_textOnly(v) == v.s

\* String(v)
String(v) ==
    CASE v.t = "str" -> v.s
      [] v.t = "num" -> (CHOOSE s \in DOMAIN Numerals : Numerals[s] = v.n)
      [] v.t = "nan" -> "NaN"
      [] v.t = "null" -> "null"
      [] v.t = "undefined" -> "undefined"


\* faulty variant: the first row taken when no option has the value
findIndex_orFirst(opts, val) ==
    IF \E i \in DOMAIN opts : String(opts[i].value) = String(val)
    THEN (CHOOSE i \in DOMAIN opts :
            /\ String(opts[i].value) = String(val)
            /\ \A j \in 1..(i - 1) : String(opts[j].value) # String(val)) - 1
    ELSE 0
\* options.findIndex((o) => String(o.value) === String(value)), from 0
findIndex(opts, val) ==
    IF \E i \in DOMAIN opts : String(opts[i].value) = String(val)
    THEN (CHOOSE i \in DOMAIN opts :
            /\ String(opts[i].value) = String(val)
            /\ \A j \in 1..(i - 1) : String(opts[j].value) # String(val)) - 1
    ELSE 0 - 1

\* the updater of ArrowDown and ArrowUp
ArrowMove(key, h, opts, val) ==
    LET max == Len(opts) - 1
        found == findIndex(opts, val)
        b == IF h < 0 THEN (IF found > 0 THEN found ELSE 0) ELSE h
    IN IF key = "ArrowDown"
       THEN (IF b >= max THEN 0 ELSE b + 1)
       ELSE (IF b <= 0 THEN max ELSE b - 1)

\* the effect on [open, options, value, onChange, highlight]: it runs after
\* a render in which one of them has changed, and when the menu is open it
\* ends with setHighlight(idx), idx the index of the selected option
AfterEffect(changed, op, h, opts, val) ==
    IF changed /\ op THEN findIndex(opts, val) ELSE h

\* everything but the select and the last step
pageVars == <<shellVars, mountLog, page, mount, catalogVars, inputVars,
              sessionVars, estimating, calls, edits>>

\* toggle: a click on the trigger (a browser may or may not focus a button
\* that is clicked)
CSelect_toggle ==
    /\ ~disabled
    /\ open' = ~open
    /\ highlight' = AfterEffect(TRUE, open', highlight, options, value)
    /\ focused' \in {"trigger", focused}
    /\ ev' = WidgetEvent("CSelect_toggle", "", highlight, highlight, <<>>)
    /\ UNCHANGED <<value, options, disabled, pageVars>>

\* onKey, the keydown listener of the document while the menu is open; the
\* parent stores what onChange hands it (onChange={setGroupId})
CSelect_onKey ==
    /\ open
    /\ \E key \in {"Escape", "ArrowDown", "ArrowUp", "Enter"} :
        CASE key = "Escape" ->
                /\ open' = FALSE
                /\ focused' = "trigger"
                /\ ev' = WidgetEvent("CSelect_onKey", key, highlight, highlight, <<>>)
                /\ UNCHANGED <<highlight, value>>
          [] key \in {"ArrowDown", "ArrowUp"} ->
                LET moved == ArrowMove(key, highlight, options, value) IN
                /\ highlight' = AfterEffect(moved # highlight, open, moved, options, value)
                /\ ev' = WidgetEvent("CSelect_onKey", key, highlight, moved, <<>>)
                /\ UNCHANGED <<open, focused, value>>
          [] key = "Enter" ->
                IF highlight >= 0 /\ highlight < Len(options)
                THEN LET v == String(options[highlight + 1].value) IN
                     /\ value' = JsStr(v)
                     /\ open' = FALSE
                     /\ focused' = "trigger"
                     /\ ev' = WidgetEvent("CSelect_onKey", key, highlight, highlight, <<v>>)
                     /\ UNCHANGED highlight
                ELSE /\ ev' = WidgetEvent("CSelect_onKey", key, highlight, highlight, <<>>)
                     /\ UNCHANGED <<open, highlight, focused, value>>
    /\ UNCHANGED <<options, disabled, pageVars>>

\* onMouseEnter of option i
CSelect_onMouseEnter ==
    /\ open
    /\ \E i \in 0..(Len(options) - 1) :
        /\ highlight' = AfterEffect(i # highlight, open, i, options, value)
        /\ ev' = WidgetEvent("CSelect_onMouseEnter", "", highlight, i, <<>>)
    /\ UNCHANGED <<open, value, options, disabled, focused, pageVars>>

\* pick: a click on option i
CSelect_pick ==
    /\ open
    /\ \E i \in 0..(Len(options) - 1) :
        LET v == String(options[i + 1].value) IN
        /\ value' = JsStr(v)
        /\ ev' = WidgetEvent("CSelect_pick", "", highlight, highlight, <<v>>)
    /\ open' = FALSE
    /\ focused' = "trigger"
    /\ UNCHANGED <<highlight, options, disabled, pageVars>>


\* faulty variant: a press outside the menu commits the highlighted option
\* before it closes the menu
CSelect_onDown_commits ==
    /\ open
    /\ open' = FALSE
    /\ focused' = "page"
    /\ IF highlight >= 0 /\ highlight < Len(options)
       THEN LET v == String(options[highlight + 1].value) IN
            /\ value' = JsStr(v)
            /\ ev' = WidgetEvent("CSelect_onDown", "", highlight, highlight, <<v>>)
       ELSE /\ ev' = WidgetEvent("CSelect_onDown", "", highlight, highlight, <<>>)
            /\ UNCHANGED value
    /\ UNCHANGED <<highlight, options, disabled, pageVars>>
\* a click on the backdrop, or onDown outside the trigger and the menu
CSelect_onDown ==
    /\ open
    /\ open' = FALSE
    /\ focused' = "page"
    /\ ev' = WidgetEvent("CSelect_onDown", "", highlight, highlight, <<>>)
    /\ UNCHANGED <<highlight, value, options, disabled, pageVars>>
----------------------------------------------------------------------------
(* The pricing pages as one system *)

\* the state of a page after construction, its selects apart
PageInit ==
    /\ page \in {"staff", "public"}
    /\ mount = FreshMount(page)
    /\ materialGroups = <<>>
    /\ machines = <<>>
    /\ groupId = <<>>
    /\ materialId = <<>>
    /\ machineId = <<>>
    /\ tab = FreshTab(page)
    /\ qty = FreshQty(page)
    /\ grams = JsStr("")
    /\ minutes = JsStr("")
    /\ postProHours = JsStr("0")
    /\ extras = JsStr("0")
    /\ upQty = JsNum(1)
    /\ file = NoFile
    /\ quality = "normal"
    /\ progress = 0
    /\ estGrams = Null
    /\ estMinutes = Null
    /\ total = Null
    /\ err = ""
    /\ loading = FALSE
    /\ estimating = FALSE
    /\ store = (IF page = "staff"
                THEN [staff_token |-> JsStr("tok"), staff_role |-> JsStr("staff"),
                      staff_username |-> JsStr("ali")]
                ELSE EmptyStore)
    /\ login = LoginIdle
    /\ mountLog = FreshMountLog(page)
    /\ calls = <<>>
    /\ edits = 0
    /\ ev = UiEvent("mount")

Init == PageInit /\ WidgetIdle

Next ==
    \/ StaffMount_authMe
    \/ StaffMount_catalog
    \/ StaffSetTab
    \/ StaffClear
    \/ StaffSetGroupId
    \/ StaffSetMaterialId
    \/ StaffSetMachineId
    \/ SetQty
    \/ SetGrams
    \/ SetMinutes
    \/ SetPostProHours
    \/ SetExtras
    \/ SetUpQty
    \/ SetFile
    \/ SetQuality
    \/ StaffQuote_calcManual
    \/ estimateAndCalcUpload
    \/ StaffEstimateResponse
    \/ StaffQuoteResponse
    \/ PublicMount_catalog
    \/ PublicSetTab
    \/ PublicSetGroupId
    \/ PublicSetMaterialId
    \/ calcUpload
    \/ PublicQuote_calcManual
    \/ PublicEstimateResponse
    \/ PublicQuoteResponse

Spec == Init /\ [][Next]_vars

\* every request sent is answered in the end, by a response or by a failure
\* of the network
FairSpec ==
    /\ Spec
    /\ WF_vars(StaffEstimateResponse)
    /\ WF_vars(StaffQuoteResponse)
    /\ WF_vars(PublicEstimateResponse)
    /\ WF_vars(PublicQuoteResponse)

----------------------------------------------------------------------------
(* The application shell: routes, guards, login, and the mount effects *)

\* what the store can hold when the application is opened
Stores ==
    [staff_token : {Null, JsStr(""), JsStr("tok")},
     staff_role : {Null, JsStr("staff"), JsStr("admin")},
     staff_username : {Null, JsStr("ali")}]

\* the browser opens a location with whatever the store holds
ShellInit ==
    /\ store \in Stores
    /\ \E to \in Paths :
        /\ page = PageOf(Routes(to, store))
        /\ ev = NavEvent("Navigate", to)
    /\ mount = FreshMount(page)
    /\ mountLog = FreshMountLog(page)
    /\ materialGroups = <<>>
    /\ machines = <<>>
    /\ groupId = <<>>
    /\ materialId = <<>>
    /\ machineId = <<>>
    /\ tab = FreshTab(page)
    /\ qty = FreshQty(page)
    /\ grams = JsStr("")
    /\ minutes = JsStr("")
    /\ postProHours = JsStr("0")
    /\ extras = JsStr("0")
    /\ upQty = JsNum(1)
    /\ file = NoFile
    /\ quality = "normal"
    /\ progress = 0
    /\ estGrams = Null
    /\ estMinutes = Null
    /\ total = Null
    /\ err = ""
    /\ loading = FALSE
    /\ estimating = FALSE
    /\ login = LoginIdle
    /\ WidgetIdle
    /\ calls = <<>>
    /\ edits = 0

ShellNext ==
    \/ Navigate
    \/ AdminConfig_nav
    \/ StaffLogout
    \/ StaffLogin_onSubmit
    \/ StaffLogin_response
    \/ StaffLogin_back
    \/ StaffMount_authMe
    \/ StaffMount_catalog
    \/ PublicMount_catalog

ShellSpec == ShellInit /\ [][ShellNext]_vars

----------------------------------------------------------------------------
(* The catalog projector over the taxonomies a remote source may supply.    *)
(* A missing group_id or id and a null group or option read as the empty    *)
(* id <<>> (String(g?.group_id || ""), String(opt?.id || "")), missing      *)
(* options as the empty list (g?.options || []).                            *)

\* raw groups in one catalog
MaxGroups == 3

Named(id, name) == [id |-> id, title |-> "", name |-> name]
Titled(id, title) == [id |-> id, title |-> title, name |-> ""]

\* the raw groups a catalog is made of: overlapping PLA sub-variants, ids
\* with two family keywords, reserved "+" entries, entries without an id,
\* an unknown polymer, upper case, explicit names and titles, an id that is
\* the family prefix and nothing more, an id that begins with the letters
\* of the family without the underscore
GroupPool ==
    { [group_id |-> <<"pla", "_", "fast">>,
       options |-> << Opt(<<"pla", "_", "black">>), Opt(<<"pla", "_", "white">>) >>],
      [group_id |-> <<"pla", "_", "silk">>,
       options |-> << Named(<<"pla", "_", "white">>, "wtwo"),
                      Opt(<<"pla", "_", "red">>) >>],
      [group_id |-> <<"PLA">>,
       options |-> << Opt(<<"+", "pla", "_", "black">>), Opt(<<>>),
                      Opt(<<"black">>), Opt(<<"PLA", "_">>),
                      Opt(<<"PLA", "_", "Black">>), Opt(<<"plablack">>) >>],
      [group_id |-> <<"+", "pla">>,
       options |-> << Opt(<<"pla", "_", "red">>) >>],
      [group_id |-> <<>>,
       options |-> << Opt(<<"pla", "_", "black">>) >>],
      [group_id |-> <<"petg", "_", "pla">>,
       options |-> << Titled(<<"petg", "_", "white">>, "yakhi"),
                      Opt(<<"petg", "_", "black">>) >>],
      [group_id |-> <<"tpu", "-", "pla">>,
       options |-> << Opt(<<"tpu", "_", "95a">>) >>],
      [group_id |-> <<"tpu">>,
       options |-> << Opt(<<"+", "tpu", "_", "black">>) >>],
      [group_id |-> <<"abs">>,
       options |-> << Opt(<<"abs", "_", "black">>) >>] }

\* the catalogs: every sequence of up to MaxGroups different groups
RECURSIVE CatalogsOf(_)
CatalogsOf(n) ==
    IF n = 0 THEN { <<>> }
    ELSE LET shorter == CatalogsOf(n - 1) IN
         shorter \cup
         UNION { { Append(c, g) :
                     g \in {x \in GroupPool : \A i \in DOMAIN c : c[i] # x} } :
                 c \in {d \in shorter : Len(d) = n - 1} }

ProjCatalogs == CatalogsOf(MaxGroups)

ProjResponses == [kind : {"ok"}, text : {""}, material_groups : ProjCatalogs]

ProjMachines == [kind : {"ok"}, text : {""}, machines : {<< [id |-> <<"kobra">>] >>}]

ProjStaffMount_catalog == StaffMount_catalogOf(ProjResponses, ProjMachines)

ProjPublicMount_catalog == PublicMount_catalogOf(ProjResponses)

ProjNext ==
    \/ StaffMount_authMe
    \/ ProjStaffMount_catalog
    \/ ProjPublicMount_catalog
    \/ StaffSetGroupId
    \/ StaffSetMaterialId
    \/ PublicSetGroupId
    \/ PublicSetMaterialId

ProjSpec == Init /\ [][ProjNext]_vars
----------------------------------------------------------------------------
(* One select on a page, with the option lists and values a parent gives it *)

Option(v, label) == [value |-> v, label |-> label]

\* qualityOptions, a list of one, a list with numbers as values, no options
OptionLists ==
    { <<>>,
      << Option(JsStr("pla"), "PLA") >>,
      << Option(JsStr("draft"), "Draft"), Option(JsStr("normal"), "Normal"),
         Option(JsStr("fine"), "Fine") >>,
      << Option(JsNum(1), "one"), Option(JsNum(2), "two") >> }

\* the values a parent holds: nothing chosen yet, or the value of an option
WidgetValues == {JsStr(""), JsStr("pla"), JsStr("draft"), JsStr("fine"), JsNum(2)}

WidgetInit ==
    /\ PageInit
    /\ page = "public"
    /\ open = FALSE
    /\ highlight = 0 - 1
    /\ value \in WidgetValues
    /\ options \in OptionLists
    /\ disabled \in BOOLEAN
    /\ focused = "page"

WidgetNext ==
    \/ CSelect_toggle
    \/ CSelect_onKey
    \/ CSelect_onMouseEnter
    \/ CSelect_pick
    \/ CSelect_onDown

WidgetSpec == WidgetInit /\ [][WidgetNext]_vars
----------------------------------------------------------------------------
(* App: the single-form page.  It holds no tab, no file and no progress    *)
(* bar; the variables of those keep the values of AppInit.                 *)

\* the answers read here: a 2xx body with the fields the page expects, or a
\* rejected fetch
AppLoadResponses(R) == {r \in R : r.kind \in {"ok", "network_error"}}

\* POST estimate answers: figures that fill the fields, a missing figure, a
\* figure that is text, a failure
AppEstimateResponses ==
    { EstimateOk(JsNum(120), JsNum(180)), EstimateOk(JsNum(0), Undefined),
      EstimateOk(JsStr("abc"), Null) }
    \cup [kind : {"http_error"}, text : ErrorTexts,
          estimated_grams : {Undefined}, estimated_minutes : {Undefined}]
    \cup [kind : {"network_error"}, text : {FetchFailure},
          estimated_grams : {Undefined}, estimated_minutes : {Undefined}]

\* the page as React constructs it; the mount effect has sent its requests
AppInit ==
    /\ page = "app"
    /\ mount = "load"
    /\ mountLog = <<Pending("material-groups"), Pending("machines")>>
    /\ materialGroups = <<>>
    /\ machines = <<>>
    /\ groupId = <<>>
    /\ materialId = <<>>
    /\ machineId = <<>>
    /\ qty = JsNum(1)
    /\ grams = JsStr("")
    /\ minutes = JsStr("")
    /\ postProHours = JsStr("0")
    /\ extras = JsStr("0")
    /\ quality = "normal"
    /\ total = Null
    /\ err = ""
    /\ loading = FALSE
    /\ estimating = FALSE
    /\ tab = "manual"
    /\ upQty = JsNum(1)
    /\ file = NoFile
    /\ progress = 0
    /\ estGrams = Null
    /\ estMinutes = Null
    /\ store = EmptyStore
    /\ login = LoginIdle
    /\ WidgetIdle
    /\ calls = <<>>
    /\ edits = 0
    /\ ev = UiEvent("mount")

\* what no handler of App touches
appFrame == <<shellVars, page, widgetVars, tab, upQty, file, progress, estGrams, estMinutes>>

\* String(e) of the TypeError a rejected fetch throws
AppLoadError == "TypeError: Failed to fetch"

\* the mount effect after Promise.all: both bodies read, the first group, its
\* first option and the first machine selected; a rejection ends in setErr.
\* The effect on [groupId] that follows picks the same first option.
App_load ==
    /\ page = "app" /\ mount = "load"
    /\ \E mg \in AppLoadResponses(MaterialGroupsResponses),
          mc \in AppLoadResponses(MachinesResponses) :
        IF mg.kind # "ok" \/ mc.kind # "ok"
        THEN /\ err' = AppLoadError
             /\ mount' = "failed"
             /\ mountLog' = <<Answered("material-groups", mg), Answered("machines", mc)>>
             /\ UNCHANGED catalogVars
        ELSE LET gs == mg.material_groups
                 gid == IF gs # <<>> THEN gs[1].group_id ELSE <<>>
                 mid == IF gs # <<>> /\ gs[1].options # <<>> THEN gs[1].options[1].id ELSE <<>>
             IN /\ materialGroups' = gs
                /\ machines' = mc.machines
                /\ groupId' = gid
                /\ materialId' = GroupEffect(gs, gid, mid)
                /\ machineId' = (IF mc.machines # <<>> THEN mc.machines[1].id ELSE <<>>)
                /\ mount' = "done"
                /\ mountLog' = <<Answered("material-groups", mg), Answered("machines", mc)>>
                /\ UNCHANGED err
    /\ ev' = UiEvent("App_load")
    /\ UNCHANGED <<qty, grams, minutes, postProHours, extras, quality, total, loading,
                   estimating, calls, edits, appFrame>>

\* canCalc
canCalc ==
    /\ materialId # <<>>
    /\ machineId # <<>>
    /\ Ge(Number(qty), JsNum(1))
    /\ Ge(Number(grams), JsNum(0))
    /\ Ge(Number(minutes), JsNum(0))

\* the body calc posts to quote
calcBody ==
    [material_id |-> materialId,
     machine_id |-> machineId,
     qty |-> Number(Or(qty, JsNum(1))),
     filament_grams |-> Number(Or(grams, JsNum(0))),
     print_time_minutes |-> Number(Or(minutes, JsNum(0))),
     post_pro_hours |-> Number(Or(postProHours, JsNum(0))),
     extras |-> Number(Or(extras, JsNum(0)))]

\* a change of a field or of a select of the form
App_onChange(name) ==
    /\ page = "app" /\ edits < MaxEdits
    /\ edits' = edits + 1
    /\ ev' = UiEvent(name)
    /\ UNCHANGED <<mount, mountLog, materialGroups, machines, total, err, loading,
                   estimating, calls, appFrame>>

\* the group select; the effect on [groupId] picks the first option
App_setGroupId ==
    /\ App_onChange("App_setGroupId")
    /\ \E i \in DOMAIN materialGroups :
        /\ materialGroups[i].group_id # groupId
        /\ groupId' = materialGroups[i].group_id
        /\ materialId' = GroupEffect(materialGroups, groupId', materialId)
    /\ UNCHANGED <<machineId, qty, grams, minutes, postProHours, extras, quality>>

\* the option select, which lists the options of the selected group
App_setMaterialId ==
    /\ App_onChange("App_setMaterialId")
    /\ selectedGroup # 0
    /\ \E i \in DOMAIN materialGroups[selectedGroup].options :
        /\ materialGroups[selectedGroup].options[i].id # materialId
        /\ materialId' = materialGroups[selectedGroup].options[i].id
    /\ UNCHANGED <<groupId, machineId, qty, grams, minutes, postProHours, extras, quality>>

App_setMachineId ==
    /\ App_onChange("App_setMachineId")
    /\ \E i \in DOMAIN machines :
        /\ machines[i].id # machineId
        /\ machineId' = machines[i].id
    /\ UNCHANGED <<groupId, materialId, qty, grams, minutes, postProHours, extras, quality>>

App_setQty ==
    /\ App_onChange("App_setQty")
    /\ \E v \in QtyTexts : JsStr(v) # qty /\ qty' = JsStr(v)
    /\ UNCHANGED <<groupId, materialId, machineId, grams, minutes, postProHours, extras, quality>>

App_setGrams ==
    /\ App_onChange("App_setGrams")
    /\ \E v \in GramsTexts : JsStr(v) # grams /\ grams' = JsStr(v)
    /\ UNCHANGED <<groupId, materialId, machineId, qty, minutes, postProHours, extras, quality>>

App_setMinutes ==
    /\ App_onChange("App_setMinutes")
    /\ \E v \in MinutesTexts : JsStr(v) # minutes /\ minutes' = JsStr(v)
    /\ UNCHANGED <<groupId, materialId, machineId, qty, grams, postProHours, extras, quality>>

App_setPostProHours ==
    /\ App_onChange("App_setPostProHours")
    /\ \E v \in PostProTexts : JsStr(v) # postProHours /\ postProHours' = JsStr(v)
    /\ UNCHANGED <<groupId, materialId, machineId, qty, grams, minutes, extras, quality>>

App_setExtras ==
    /\ App_onChange("App_setExtras")
    /\ \E v \in ExtrasTexts : JsStr(v) # extras /\ extras' = JsStr(v)
    /\ UNCHANGED <<groupId, materialId, machineId, qty, grams, minutes, postProHours, quality>>

App_setQuality ==
    /\ App_onChange("App_setQuality")
    /\ \E v \in Qualities : v # quality /\ quality' = v
    /\ UNCHANGED <<groupId, materialId, machineId, qty, grams, minutes, postProHours, extras>>

\* the message of estimateFromFile when no material is selected
AppNoMaterialMessage == "no material"

\* the file input: a file is chosen and estimateFromFile runs up to its
\* await; the input is never disabled
App_estimateFromFile ==
    /\ page = "app"
    /\ \E f \in Files :
        IF materialId = <<>>
        THEN /\ err' = AppNoMaterialMessage
             /\ ev' = UiEvent("App_estimateFromFile")
             /\ UNCHANGED <<estimating, total, calls>>
        ELSE /\ Len(calls) < MaxSubmits
             /\ err' = ""
             /\ estimating' = TRUE
             /\ total' = Null
             /\ calls' = Append(calls, NewCall("estimateFromFile", "estimate", 1, 0))
             /\ ev' = Event("App_estimateFromFile", Len(calls) + 1,
                            NewCall("estimateFromFile", "estimate", 1, 0),
                            <<staffEstimate(f, materialId, quality)>>, <<>>,
                            NoEstimate, NoQuote)
    /\ UNCHANGED <<mount, mountLog, catalogVars, qty, grams, minutes, postProHours,
                   extras, quality, loading, edits, appFrame>>

\* the calculate button (disabled={!canCalc || loading}): calc up to its await
App_calc ==
    /\ page = "app"
    /\ canCalc /\ ~loading
    /\ Len(calls) < MaxSubmits
    /\ err' = ""
    /\ total' = Null
    /\ loading' = TRUE
    /\ calls' = Append(calls, NewCall("calc", "quote", 0, 1))
    /\ ev' = Event("App_calc", Len(calls) + 1, NewCall("calc", "quote", 0, 1),
                   <<>>, <<calcBody>>, NoEstimate, NoQuote)
    /\ UNCHANGED <<mount, mountLog, catalogVars, qty, grams, minutes, postProHours,
                   extras, quality, estimating, edits, appFrame>>

\* a figure of the estimate written into its field: String(v) unless the
\* figure is undefined or null
FilledField(v, old) == IF v.t \in {"undefined", "null"} THEN old ELSE JsStr(String(v))

\* estimate answers: estimateFromFile after its await
App_estimateResponse ==
    /\ page = "app"
    /\ \E i \in Awaiting("estimate"), r \in AppEstimateResponses :
        /\ IF ResponseThrows(r)
           THEN /\ err' = ErrorMessage(r.text)
                /\ UNCHANGED <<grams, minutes>>
           ELSE /\ grams' = FilledField(r.estimated_grams, grams)
                /\ minutes' = FilledField(r.estimated_minutes, minutes)
                /\ UNCHANGED err
        /\ estimating' = FALSE
        /\ calls' = [calls EXCEPT ![i] = Returned(calls[i])]
        /\ ev' = Event("App_estimateResponse", i, calls[i], <<>>, <<>>, r, NoQuote)
    /\ UNCHANGED <<mount, mountLog, catalogVars, qty, postProHours, extras, quality,
                   total, loading, edits, appFrame>>

\* quote answers: calc after its await
App_quoteResponse ==
    /\ page = "app"
    /\ \E i \in Awaiting("quote"), r \in QuoteResponses :
        /\ IF ResponseThrows(r)
           THEN /\ err' = ErrorMessage(r.text)
                /\ UNCHANGED total
           ELSE /\ total' = NullishToNull(r.Total)
                /\ UNCHANGED err
        /\ loading' = FALSE
        /\ calls' = [calls EXCEPT ![i] = Returned(calls[i])]
        /\ ev' = Event("App_quoteResponse", i, calls[i], <<>>, <<>>, NoEstimate, r)
    /\ UNCHANGED <<mount, mountLog, catalogVars, qty, grams, minutes, postProHours,
                   extras, quality, estimating, edits, appFrame>>

\* the clear button: setTotal(null)
App_clear ==
    /\ page = "app"
    /\ total' = Null
    /\ ev' = UiEvent("App_clear")
    /\ UNCHANGED <<mount, mountLog, catalogVars, qty, grams, minutes, postProHours,
                   extras, quality, err, loading, estimating, calls, edits, appFrame>>

AppNext ==
    \/ App_load
    \/ App_setGroupId
    \/ App_setMaterialId
    \/ App_setMachineId
    \/ App_setQty
    \/ App_setGrams
    \/ App_setMinutes
    \/ App_setPostProHours
    \/ App_setExtras
    \/ App_setQuality
    \/ App_estimateFromFile
    \/ App_calc
    \/ App_estimateResponse
    \/ App_quoteResponse
    \/ App_clear

AppSpec == AppInit /\ [][AppNext]_vars
----------------------------------------------------------------------------
(* The claims *)

UploadFns == {"estimateAndCalcUpload", "calcUpload"}
EstimateSteps == {"StaffEstimateResponse", "PublicEstimateResponse"}
QuoteSteps == {"StaffQuoteResponse", "PublicQuoteResponse"}
ManualSubmits == {"StaffQuote_calcManual", "PublicQuote_calcManual"}

\* an estimate figure a price can be computed from: a number above zero
UsableFigure(v) == v.t = "num" /\ v.n > 0
UnusableEstimate(r) ==
    r.kind = "ok" /\ ~(UsableFigure(r.estimated_grams) /\ UsableFigure(r.estimated_minutes))

\* the number a field shows
Shown(v) ==
    CASE v = JsNum(1) -> JsNum(1)
      [] v = JsStr("1") -> JsNum(1)
      [] v = JsStr("2") -> JsNum(2)
      [] v = JsStr("3") -> JsNum(3)
      [] v = JsStr("120") -> JsNum(120)
      [] v = JsStr("180") -> JsNum(180)
      [] OTHER -> NaN

\* C1: on the upload path of both pages a price request is sent only by the
\* step that has just read the 2xx estimate response of the same submission,
\* and the step that reads a failed estimate (non-2xx, network error) sends no
\* price request and ends the submission.
C1_PriceOnlyAfterEstimate ==
    /\ (ev.rec.fn \in UploadFns /\ ev.quoteReq # <<>>) =>
            /\ ev.name \in EstimateSteps
            /\ ev.rec.pc = "estimate" /\ ev.rec.nEst = 1 /\ ev.rec.nQuote = 0
            /\ ev.est.kind = "ok"
    /\ (ev.name \in EstimateSteps /\ ev.est.kind # "ok") =>
            /\ ev.quoteReq = <<>>
            /\ calls[ev.call].pc = "done"
    /\ \A i \in Awaiting("quote") :
            calls[i].fn \in UploadFns => calls[i].est.kind = "ok" /\ calls[i].nQuote = 1

C1_Witness ==
    /\ ev.name = "StaffEstimateResponse"
    /\ ev.est.kind = "ok"
    /\ Len(ev.quoteReq) = 1

\* C2: at most one estimate-or-price request of the page is in flight, and
\* while one is in flight every submit button of the page is disabled.
C2_OneRequestInFlight ==
    /\ Cardinality(InFlight) <= 1
    /\ InFlight # {} =>
            /\ page = "staff" => StaffManualDisabled /\ StaffUploadDisabled
            /\ page = "public" => PublicSubmitDisabled

C2_Witness ==
    /\ Cardinality(InFlight) = 1
    /\ ev.name = "StaffClear"
    /\ Len(calls) = 2

\* C3: on the public upload path an estimate response whose grams or minutes
\* is zero, negative, missing or not a number ends the submission failed:
\* error set, progress 0, total null, loading false, no price request.
C3_PublicUnusableEstimateFails ==
    (ev.name = "PublicEstimateResponse" /\ UnusableEstimate(ev.est)) =>
        /\ ev.quoteReq = <<>>
        /\ calls[ev.call].pc = "done"
        /\ err # ""
        /\ progress = 0
        /\ total = Null
        /\ loading = FALSE

C3_Witness ==
    /\ ev.name = "PublicEstimateResponse"
    /\ ev.est.kind = "ok"
    /\ ev.est.estimated_grams = JsStr("abc")
    /\ err = EstimateUnusableMessage

\* C4: on the staff upload path an estimate response whose grams or minutes is
\* zero, missing or not a number aborts before the price call: no staff/quote
\* request, progress 0, an error surfaced.
C4_StaffUnusableEstimateAborts ==
    (ev.name = "StaffEstimateResponse" /\ UnusableEstimate(ev.est)) =>
        /\ ev.quoteReq = <<>>
        /\ progress = 0
        /\ err # ""

\* C5: a manual submission with valid inputs sends exactly one price request
\* and no estimate request, the request carries the entered qty, grams and
\* minutes unchanged, and a 2xx answer with a Total leaves total = Total, no
\* error and loading false (both pages).
C5_ManualSubmission ==
    /\ (ev.name \in ManualSubmits
        /\ Gt(Shown(grams), JsNum(0)) /\ Gt(Shown(minutes), JsNum(0))
        /\ Ge(Shown(qty), JsNum(1)) /\ materialId # <<>>) =>
            /\ ev.estimateReq = <<>>
            /\ Len(ev.quoteReq) = 1
            /\ ev.quoteReq[1].qty = Shown(qty)
            /\ ev.quoteReq[1].filament_grams = Shown(grams)
            /\ ev.quoteReq[1].print_time_minutes = Shown(minutes)
            /\ ev.quoteReq[1].material_id = materialId
            /\ calls[ev.call].pc = "quote"
    /\ (ev.name \in QuoteSteps /\ ev.rec.fn = "calcManual") =>
            /\ ev.rec.nEst = 0 /\ ev.rec.nQuote = 1
            /\ ev.estimateReq = <<>> /\ ev.quoteReq = <<>>
            /\ calls[ev.call].pc = "done"
            /\ (ev.res.kind = "ok" /\ ev.res.Total.t = "num") =>
                    total = ev.res.Total /\ err = "" /\ loading = FALSE

C5_Witness ==
    /\ ev.name = "PublicQuoteResponse"
    /\ ev.rec.fn = "calcManual"
    /\ grams = JsStr("120") /\ minutes = JsStr("180")
    /\ total = JsNum(1000)

\* C6: on the staff upload path the price request carries the per-unit grams
\* and minutes of the estimate response, not multiplied by the quantity, the
\* upload quantity the submission was made with, post_pro_hours 0 and extras 0.
C6_StaffUploadRequest ==
    (ev.name = "StaffEstimateResponse" /\ ev.quoteReq # <<>>) =>
        LET b == ev.quoteReq[1] IN
        /\ Len(ev.quoteReq) = 1
        /\ b.qty = Shown(ev.rec.upQty)
        /\ ev.est.estimated_grams.t = "num" => b.filament_grams = ev.est.estimated_grams
        /\ ev.est.estimated_minutes.t = "num" =>
                b.print_time_minutes = ev.est.estimated_minutes
        /\ b.post_pro_hours = JsNum(0)
        /\ b.extras = JsNum(0)

C6_Witness ==
    /\ ev.name = "StaffEstimateResponse"
    /\ Len(ev.quoteReq) = 1
    /\ ev.quoteReq[1].qty = JsNum(3)
    /\ ev.quoteReq[1].filament_grams = JsNum(50)
    /\ ev.quoteReq[1].print_time_minutes = JsNum(90)

\* C7: on the public upload path every price request has qty 1, whatever the
\* quantity field holds.
C7_PublicUploadQtyOne ==
    (ev.rec.fn = "calcUpload" /\ ev.quoteReq # <<>>) =>
        \A k \in DOMAIN ev.quoteReq : ev.quoteReq[k].qty = JsNum(1)

C7_Witness ==
    /\ ev.rec.fn = "calcUpload"
    /\ Len(ev.quoteReq) = 1
    /\ qty = JsStr("2")

\* C8: on the manual tab of both pages no price request is sent with
\* filament_grams <= 0, print_time_minutes <= 0 or qty <= 0; an empty grams
\* or minutes field counts as invalid.
C8_ManualRequestPositive ==
    ev.name \in ManualSubmits =>
        \A k \in DOMAIN ev.quoteReq :
            /\ Gt(ev.quoteReq[k].filament_grams, JsNum(0))
            /\ Gt(ev.quoteReq[k].print_time_minutes, JsNum(0))
            /\ Gt(ev.quoteReq[k].qty, JsNum(0))

\* C9: on the staff page a response that arrives after clear was pressed
\* while its request was in flight is ignored: total null, error empty,
\* progress 0 and estimate figures null after it.
C9_ResponseAfterClearIgnored ==
    (ev.name \in {"StaffEstimateResponse", "StaffQuoteResponse"} /\ ev.rec.cleared) =>
        /\ total = Null
        /\ err = ""
        /\ progress = 0
        /\ estGrams = Null
        /\ estMinutes = Null

\* C10: a tab switch (both pages) and the clear action (staff page) leave
\* total null, error empty and progress 0.
C10_TabSwitchAndClearReset ==
    ev.name \in {"StaffSetTab", "PublicSetTab", "StaffClear"} =>
        /\ total = Null
        /\ err = ""
        /\ progress = 0

\* the steps that read a response of a call
ResponseSteps == EstimateSteps \cup QuoteSteps

\* C11: progress is one of 0, 10, 40, 65, 100.  In an upload submission it
\* is 10 while the estimate is outstanding and 65 while the price is
\* outstanding, or 0 when the staff clear button was pressed since the
\* submit; it is 100 right after a 2xx price response and 0 right after a
\* failure.  In a public manual submission it is 40 while the price request
\* is outstanding.
C11_ProgressValues ==
    /\ progress \in {0, 10, 40, 65, 100}
    /\ \A i \in Awaiting("estimate") :
            progress = 10 \/ (calls[i].cleared /\ progress = 0)
    /\ \A i \in Awaiting("quote") :
            /\ calls[i].fn \in UploadFns =>
                    progress = 65 \/ (calls[i].cleared /\ progress = 0)
            /\ (page = "public" /\ calls[i].fn = "calcManual") => progress = 40
    /\ (ev.name \in QuoteSteps /\ ev.rec.fn \in UploadFns /\ ev.res.kind = "ok") =>
            progress = 100
    /\ (ev.name \in ResponseSteps /\ ev.rec.fn \in UploadFns
        /\ calls[ev.call].pc = "done" /\ ev.res.kind # "ok") =>
            progress = 0

C11_Witness ==
    /\ ev.name = "StaffClear"
    /\ \E i \in Awaiting("quote") :
            calls[i].fn = "estimateAndCalcUpload" /\ calls[i].cleared
    /\ progress = 0

\* C11 as stated: 10 from the submit to the estimate response and 65 from the
\* estimate to the price response, whatever the user does in between.
C11_ProgressWhileOutstanding ==
    /\ \A i \in Awaiting("estimate") : progress = 10
    /\ \A i \in Awaiting("quote") : calls[i].fn \in UploadFns => progress = 65

UploadSubmits == {"estimateAndCalcUpload", "calcUpload"}

FailureStep ==
    /\ ev.name \in ResponseSteps \cup ManualSubmits
    /\ calls[ev.call].pc = "done"
    /\ ev.res.kind # "ok"

\* right after a failure: a message, no total, not loading
C13_FailureCaught == FailureStep => err # "" /\ total = Null /\ loading = FALSE

C14_QuoteRequestRanges ==
    ev.name \in ManualSubmits =>
        \A k \in DOMAIN ev.quoteReq :
            /\ Ge(ev.quoteReq[k].qty, JsNum(1))
            /\ Ge(ev.quoteReq[k].filament_grams, JsNum(0))
            /\ Ge(ev.quoteReq[k].print_time_minutes, JsNum(0))
            /\ Ge(ev.quoteReq[k].post_pro_hours, JsNum(0))
            /\ Ge(ev.quoteReq[k].extras, JsNum(0))

\* the ids of the options of the loaded catalog, and of the loaded machines
LoadedOptionIds ==
    UNION { {materialGroups[g].options[o].id : o \in DOMAIN materialGroups[g].options} :
            g \in DOMAIN materialGroups }
LoadedMachineIds == {machines[i].id : i \in DOMAIN machines}

\* C15: every estimate or price request carries the id of an option of the
\* loaded catalog, and every price request the id of a loaded machine.
C15_RequestIdsLoaded ==
    /\ \A k \in DOMAIN ev.estimateReq : ev.estimateReq[k].material_id \in LoadedOptionIds
    /\ \A k \in DOMAIN ev.quoteReq :
            /\ ev.quoteReq[k].material_id \in LoadedOptionIds
            /\ ev.quoteReq[k].machine_id \in LoadedMachineIds

\* the part of C15 that the pages keep: the material of every request is an
\* option of the loaded catalog, and on the staff page the machine is loaded
C15_MaterialLoaded ==
    /\ \A k \in DOMAIN ev.estimateReq : ev.estimateReq[k].material_id \in LoadedOptionIds
    /\ \A k \in DOMAIN ev.quoteReq :
            /\ ev.quoteReq[k].material_id \in LoadedOptionIds
            /\ page = "staff" => ev.quoteReq[k].machine_id \in LoadedMachineIds

\* the store holds a token, and the role "admin"
HasToken == Truthy(store.staff_token)
IsAdmin == store.staff_role = JsStr("admin")

\* the steps that render the element of a path through the guards
GuardedSteps == {"Navigate", "AdminConfig_nav", "StaffLogin_response"}

\* C16: the guards decide from the store alone.  Right after a navigation to
\* /staff or /admin: with no token the login page is rendered; with a token
\* /staff renders the staff page for any role; /admin renders the admin page
\* with a token and the role admin, and the staff page with a token and any
\* other or no role.
C16_GuardDecision ==
    (ev.name \in GuardedSteps /\ ev.to \in {"/staff", "/admin"}) =>
        /\ ~HasToken => page = "login"
        /\ (HasToken /\ ev.to = "/staff") => page = "staff"
        /\ (HasToken /\ ev.to = "/admin" /\ IsAdmin) => page = "admin"
        /\ (HasToken /\ ev.to = "/admin" /\ ~IsAdmin) => page = "staff"

C16_Witness ==
    /\ ev.name = "StaffLogin_response" /\ ev.to = "/admin"
    /\ HasToken /\ IsAdmin
    /\ page = "admin"

\* C17: the guards are evaluated at every navigation, from the store as it
\* is then: the staff or the admin page is rendered only while the store
\* holds a token, whatever logins, logouts and failed identity checks came
\* before, and a navigation to /staff or /admin with no token renders the
\* login page.
C17_GuardEveryNavigation ==
    /\ page \in {"staff", "admin"} => HasToken
    /\ (ev.name \in GuardedSteps /\ ev.to \in {"/staff", "/admin"} /\ ~HasToken) =>
            page = "login"
    /\ ev.name = "StaffLogout" => ~HasToken /\ page = "login"

C17_Witness ==
    /\ ev.name = "StaffLogout" /\ ev.to = "/staff/login"
    /\ ~HasToken
    /\ store.staff_role = JsStr("admin") /\ store.staff_username = JsStr("ali")
    /\ page = "login"

\* C18: right after the logout button of the staff page, and right after a
\* failed identity check, the store holds no token, no role and no username.
C18_CredentialCleared ==
    (\/ ev.name = "StaffLogout"
     \/ ev.name = "StaffMount_authMe" /\ mount = "redirected") =>
        store = EmptyStore

\* the mount effect of the staff page is the one the log belongs to
StaffMountLog == mountLog # <<>> /\ mountLog[1].url = "auth/me"

\* C19: the staff page requests material-groups and machines only after
\* auth/me has answered 2xx; when auth/me answers non-2xx or fails, the token
\* is removed, the login page is loaded, no catalog request is sent and
\* auth/me is not sent again.
C19_IdentityCheckFirst ==
    /\ StaffMountLog =>
            /\ Cardinality({i \in DOMAIN mountLog : mountLog[i].url = "auth/me"}) = 1
            /\ Urls(mountLog) \cap {"material-groups", "machines"} # {} =>
                    mountLog[1].kind = "ok"
            /\ mountLog[1].kind \in {"http_error", "network_error"} => Len(mountLog) = 1
            /\ page = "staff" => (mount = "me" <=> mountLog[1].kind = "pending")
    /\ (ev.name = "StaffMount_authMe" /\ mountLog[1].kind # "ok") =>
            /\ ~HasToken
            /\ page = "login"
            /\ mount = "redirected"
    /\ mount = "redirected" => page = "login"

C19_Witness ==
    /\ ev.name = "StaffMount_authMe"
    /\ mountLog = <<[url |-> "auth/me", kind |-> "http_error"]>>
    /\ ~HasToken
    /\ page = "login"

\* the catalog load of the staff page has failed: material-groups or machines
\* answered non-2xx or not at all
CatalogLoadFailed ==
    /\ page = "staff" /\ StaffMountLog /\ Len(mountLog) = 3
    /\ \E i \in {2, 3} : mountLog[i].kind \in {"http_error", "network_error"}

----------------------------------------------------------------------------
(* Claims about the catalog projector (ProjSpec) *)

\* an id the projector must never show: missing, empty, or reserved
Hidden(id) == id = <<>> \/ startsWith(id, "+")

\* the public page with its catalog loaded
PublicLoaded == page = "public" /\ mount = "done"

StaffLoaded == page = "staff" /\ mount = "done"

\* C22: on the staff page no raw group whose group_id starts with "+" and no
\* option whose id starts with "+" is listed by the group select or by the
\* option select, is selected after the catalog load or a change of group,
\* or is sent as material_id.
C22_StaffNoReserved ==
    StaffLoaded =>
        /\ \A g \in DOMAIN materialGroups :
                ~startsWith(materialGroups[g].group_id, "+")
        /\ selectedGroup # 0 =>
                \A i \in DOMAIN materialGroups[selectedGroup].options :
                    ~startsWith(materialGroups[selectedGroup].options[i].id, "+")
        /\ ~startsWith(groupId, "+")
        /\ ~startsWith(materialId, "+")
        /\ \A k \in DOMAIN ev.quoteReq : ~startsWith(ev.quoteReq[k].material_id, "+")

\* the raw group g has the keyword k in its group_id, whatever the case
Keyword(g, k) == \E i \in DOMAIN g.group_id : LowerAtom(g.group_id[i]) = k

\* the one family the claim gives the raw group g, "none" when it has none
ClassOf(g) ==
    CASE Hidden(g.group_id) -> "none"
      [] ~Hidden(g.group_id) /\ Keyword(g, "petg") -> "petg"
      [] ~Hidden(g.group_id) /\ ~Keyword(g, "petg") /\ Keyword(g, "tpu") -> "tpu"
      [] ~Hidden(g.group_id) /\ ~Keyword(g, "petg") /\ ~Keyword(g, "tpu")
            /\ Keyword(g, "pla") -> "pla"
      [] OTHER -> "none"

\* the ids of the options of the raw group g that may be shown
ShownIds(g) == {g.options[i].id : i \in {j \in DOMAIN g.options : ~Hidden(g.options[j].id)}}

\* the ids the projection of gs shows in family f
FamilyIds(gs, f) ==
    LET i == FindGroup(groups(gs), <<f>>) IN
    IF i = 0 THEN {} ELSE {groups(gs)[i].options[k].id : k \in DOMAIN groups(gs)[i].options}

\* C23: the options a family shows are those of the raw groups classified
\* into it by the first keyword found in the order petg, tpu, pla, whatever the
\* case; a group with no keyword gives nothing; the family the mount effect
\* selects is found by the same classification.
C23_ClassificationPriority ==
    PublicLoaded =>
        /\ \A f \in {"pla", "petg", "tpu"} :
                FamilyIds(materialGroups, f) =
                    UNION { ShownIds(materialGroups[g]) :
                            g \in {j \in DOMAIN materialGroups :
                                        ClassOf(materialGroups[j]) = f} }
        /\ \A i \in DOMAIN groups(materialGroups) :
                groups(materialGroups)[i].group_id \in {<<"pla">>, <<"petg">>, <<"tpu">>}
        /\ ev.name = "PublicMount_catalog" /\ groups(materialGroups) # <<>> =>
                groupId = groups(materialGroups)[1].group_id

\* a catalog of a petg+pla group, a tpu+pla group and a group without a
\* keyword has been projected: PETG and TPU are shown, PLA is not
C23_Witness ==
    /\ PublicLoaded
    /\ \E g \in DOMAIN materialGroups :
            Keyword(materialGroups[g], "petg") /\ Keyword(materialGroups[g], "pla")
    /\ \E g \in DOMAIN materialGroups :
            Keyword(materialGroups[g], "tpu") /\ Keyword(materialGroups[g], "pla")
    /\ \E g \in DOMAIN materialGroups : materialGroups[g].group_id = <<"abs">>
    /\ FamilyIds(materialGroups, "petg") =
            { <<"petg", "_", "white">>, <<"petg", "_", "black">> }
    /\ FamilyIds(materialGroups, "tpu") = { <<"tpu", "_", "95a">> }
    /\ FamilyIds(materialGroups, "pla") = {}
    /\ groupId = <<"petg">>

\* the options of the raw groups of family f, one after another in raw order
RECURSIVE RawOptions(_, _)
RawOptions(gs, f) ==
    IF gs = <<>> THEN <<>>
    ELSE (IF ClassOf(Head(gs)) = f THEN Head(gs).options ELSE <<>>)
         \o RawOptions(Tail(gs), f)

\* the first entry with the id among the options os
FirstEntry(os, id) ==
    os[CHOOSE i \in DOMAIN os : os[i].id = id /\ \A j \in 1..(i - 1) : os[j].id # id]

PlaFastSilk ==
    << [group_id |-> <<"pla", "_", "fast">>,
        options |-> << Opt(<<"pla", "_", "black">>), Opt(<<"pla", "_", "white">>) >>],
       [group_id |-> <<"pla", "_", "silk">>,
        options |-> << Named(<<"pla", "_", "white">>, "wtwo"),
                       Opt(<<"pla", "_", "red">>) >>] >>

\* C24: in every family shown each id occurs once, and its entry is the
\* first one with that id among the options of the raw groups of the family,
\* taken in raw order; pla_fast:[a,b] and pla_silk:[b,c] give the ids {a,b,c}.
C24_DedupFirstWins ==
    PublicLoaded =>
        LET fs == groups(materialGroups) IN
        /\ \A f \in DOMAIN fs :
            LET os == fs[f].options
                raw == RawOptions(materialGroups, fs[f].group_id[1])
            IN /\ \A i, j \in DOMAIN os : os[i].id = os[j].id => i = j
               /\ \A i \in DOMAIN os : os[i] = FirstEntry(raw, os[i].id)
        /\ materialGroups = PlaFastSilk =>
                FamilyIds(materialGroups, "pla") =
                    { <<"pla", "_", "black">>, <<"pla", "_", "white">>, <<"pla", "_", "red">> }

\* pla_fast:[black, white] and pla_silk:[white (named), red] have been
\* projected: three options, the white one is the entry of pla_fast
C24_Witness ==
    /\ PublicLoaded
    /\ materialGroups = PlaFastSilk
    /\ Len(groups(materialGroups)) = 1
    /\ Len(groups(materialGroups)[1].options) = 3
    /\ \E i \in DOMAIN groups(materialGroups)[1].options :
            groups(materialGroups)[1].options[i] = Opt(<<"pla", "_", "white">>)

\* the ids that survive in family f: those the raw groups of f may show
Surviving(gs, f) ==
    UNION { ShownIds(gs[g]) : g \in {j \in DOMAIN gs : ClassOf(gs[j]) = f} }

\* C25: the families shown are pla, petg, tpu in that order, without those
\* no option survives in, whatever the order of the raw groups.
C25_FamilyOrder ==
    PublicLoaded =>
        LET fs == groups(materialGroups) IN
        /\ [i \in DOMAIN fs |-> fs[i].group_id[1]] =
                SelectSeq(<<"pla", "petg", "tpu">>,
                          LAMBDA f : Surviving(materialGroups, f) # {})
        /\ \A i \in DOMAIN fs : fs[i].options # <<>>

\* a catalog with a TPU group first whose only option is reserved, then a
\* PETG group, then a PLA group has been projected: PLA, then PETG
C25_Witness ==
    /\ PublicLoaded
    /\ Len(materialGroups) = 3
    /\ ClassOf(materialGroups[1]) = "tpu"
    /\ materialGroups[1].options # <<>>
    /\ Surviving(materialGroups, "tpu") = {}
    /\ ClassOf(materialGroups[2]) = "petg"
    /\ ClassOf(materialGroups[3]) = "pla"
    /\ Len(groups(materialGroups)) = 2
    /\ groups(materialGroups)[1].group_id = <<"pla">>
    /\ groups(materialGroups)[2].group_id = <<"petg">>

\* the options os of family key are in ascending order of the labels shown
SortedByLabel(os, key) ==
    \A i, j \in DOMAIN os :
        i < j => ~LabelBefore(materialLabel(os[j], key), materialLabel(os[i], key))

\* C26: in every family shown the options are in ascending order of the
\* label the material select shows for them (title, else name, else the
\* prettified id without the family prefix) under localeCompare "fa".
C26_SortedByLabel ==
    PublicLoaded =>
        \A f \in DOMAIN groups(materialGroups) :
            SortedByLabel(groups(materialGroups)[f].options,
                          groups(materialGroups)[f].group_id)

\* the part of C26 the page keeps: a family none of whose options carries a
\* title or a name, or has the family prefix and nothing more as its id, is
\* sorted by the labels shown
C26_SortedWithoutTitles ==
    PublicLoaded =>
        \A f \in DOMAIN groups(materialGroups) :
            LET os == groups(materialGroups)[f].options
                key == groups(materialGroups)[f].group_id
            IN (\A i \in DOMAIN os :
                    /\ os[i].title = "" /\ os[i].name = ""
                    /\ stripPrefix(os[i].id, key) # <<>>)
                => SortedByLabel(os, key)

\* C27: a family shown, given back to the projector as the only raw group
\* of a catalog, comes out as that family with the same options in the same
\* order.
C27_ProjectionIdempotent ==
    PublicLoaded =>
        \A f \in DOMAIN groups(materialGroups) :
            groups(<< groups(materialGroups)[f] >>) = << groups(materialGroups)[f] >>

\* a PLA family of three options or more has been projected, two of which
\* have the same sort key, in an order that is not the raw one
C27_Witness ==
    /\ PublicLoaded
    /\ groups(materialGroups) # <<>>
    /\ LET pla == groups(materialGroups)[1] IN
        /\ pla.group_id = <<"pla">>
        /\ Len(pla.options) >= 3
        /\ pla.options # base(materialGroups, "pla", <<>>)
        /\ \E i, j \in DOMAIN pla.options :
                i < j /\ SortKey(pla.options[i], <<"pla">>) = SortKey(pla.options[j], <<"pla">>)
        /\ groups(<<pla>>) = <<pla>>

----------------------------------------------------------------------------
(* Claims about the selection widget (WidgetSpec) *)

\* the last step was the key on the open menu
KeyStep(key) == ev.name = "CSelect_onKey" /\ ev.key = key

\* C28: with the menu open over one option or more, a value that matches no
\* option and nothing highlighted, one press of ArrowDown leaves option 0
\* highlighted.
C28_ArrowDownFromNone ==
    (/\ KeyStep("ArrowDown")
     /\ ev.h = 0 - 1
     /\ findIndex(options, value) = 0 - 1
     /\ Len(options) >= 1)
        => highlight = 0

\* C29: with the menu open over n >= 1 options and option h highlighted,
\* ArrowDown leaves option (h + 1) mod n highlighted and ArrowUp option
\* (h - 1) mod n, and the highlight stays there once the effects of the
\* widget have run (k presses are k such steps).
C29_CircularMove ==
    LET n == Len(options) IN
    /\ (KeyStep("ArrowDown") /\ ev.h >= 0 /\ n >= 1) => highlight = (ev.h + 1) % n
    /\ (KeyStep("ArrowUp") /\ ev.h >= 0 /\ n >= 1) => highlight = (ev.h + n - 1) % n

\* the text a committed value is handed over as
TextOf(v) ==
    CASE v = JsNum(1) -> "1" [] v = JsNum(2) -> "2" [] OTHER -> v.s

C31_CloseWithoutCommit ==
    [][ (/\ open
         /\ \/ ev'.name = "CSelect_onKey" /\ ev'.key = "Escape"
            \/ ev'.name = "CSelect_onDown"
            \/ ev'.name = "CSelect_toggle")
            => /\ ~open'
               /\ value' = value
               /\ ev'.called = <<>>
               /\ ev'.key = "Escape" => focused' = "trigger" ]_vars

\* Escape on the open menu with the third option highlighted, which is the
\* selected one: the menu is closed, the value is still "fine"
C31_Witness ==
    /\ KeyStep("Escape")
    /\ ev.h = 2
    /\ Len(options) = 3
    /\ value = JsStr("fine")
    /\ ev.called = <<>>
    /\ ~open
    /\ focused = "trigger"

\* C32: over an empty option list no step calls onChange, and nothing is
\* highlighted once the effects of a step have run; the index the arrow
\* handler computes in between (0 for ArrowDown) is not that of an option.
C32_EmptyListNoCommit ==
    Len(options) = 0 =>
        /\ ev.called = <<>>
        /\ highlight = 0 - 1
        /\ ev.moved \notin 0..(Len(options) - 1)

\* Enter on the open menu of a select without options: nothing is called,
\* the menu stays open
C32_Witness ==
    /\ Len(options) = 0
    /\ KeyStep("Enter")
    /\ ev.h = 0 - 1
    /\ ev.called = <<>>
    /\ open

\* C33: with the menu open, the pointer entering the row of option i leaves
\* option i highlighted once the step is over, so that the Enter that
\* follows commits option i.
C33_HoverHighlights ==
    ev.name = "CSelect_onMouseEnter" => highlight = ev.moved

----------------------------------------------------------------------------
(* Claims about the labels of the public page (ProjSpec) *)

\* the label the claim gives option o in the family key
ClaimedLabel(o, key) ==
    IF o.title # "" THEN <<o.title>>
    ELSE IF o.name # "" THEN <<o.name>>
    ELSE prettifyKey(stripPrefix(o.id, key))

\* C34: every row of the material select of the public page carries the
\* title of its option, else its name, else the synthesized label of the id
\* without the prefix "<family>_", matched whatever the case; an id
\* without that prefix is synthesized whole.
C34_LabelPrecedence ==
    PublicLoaded =>
        LET opts == materialOptions(materialGroups, groupId)
            rows == materialSelectOptions(materialGroups, groupId)
        IN /\ DOMAIN rows = DOMAIN opts
           /\ \A i \in DOMAIN rows : rows[i].label = ClaimedLabel(opts[i], groupId)

\* the part of C34 the page keeps: the rows whose id is more than the
\* family prefix; pla_black and PLA_Black read as the color, plablack whole
C34_LabelOfLongerIds ==
    PublicLoaded =>
        LET opts == materialOptions(materialGroups, groupId)
            rows == materialSelectOptions(materialGroups, groupId)
        IN \A i \in DOMAIN rows :
            /\ stripPrefix(opts[i].id, groupId) # <<>>
                    => rows[i].label = ClaimedLabel(opts[i], groupId)
            /\ opts[i] = Opt(<<"pla", "_", "black">>) => rows[i].label = <<"meshki">>
            /\ opts[i] = Opt(<<"PLA", "_", "Black">>) => rows[i].label = <<"meshki">>
            /\ opts[i] = Opt(<<"plablack">>) => rows[i].label = <<"plablack">>
            /\ opts[i].title # "" => rows[i].label = <<opts[i].title>>

----------------------------------------------------------------------------
(* Claims about the single-form page (AppSpec) *)

\* C35: on the single-form page an estimate request and a price request
\* are never outstanding together, nor are two estimate requests.
C35_NoOverlappingRequests ==
    page = "app" =>
        /\ Cardinality(Awaiting("estimate")) <= 1
        /\ Awaiting("estimate") = {} \/ Awaiting("quote") = {}

----------------------------------------------------------------------------
(* Claims about the session state of the pricing pages (Spec) *)

\* C36: on the staff page and on the public page a total and an error are
\* never shown together.
C36_TotalExcludesError ==
    page \in {"staff", "public"} => (total # Null => err = "")

\* the second submission on the staff page has been answered with a total,
\* and no error is shown
C36_Witness ==
    /\ page = "staff"
    /\ ev.name = "StaffQuoteResponse"
    /\ ev.call = 2
    /\ total = JsNum(1000)
    /\ err = ""

\* C37: on the staff page and on the public page the progress bar is full
\* only while a total is present.
C37_FullProgressHasTotal ==
    page \in {"staff", "public"} => (progress = 100 => total # Null)

\* the aggregate hint of the staff page is on the screen
HintVisible ==
    page = "staff" /\ total # Null /\ tab = "upload" /\ estMinutes # Null /\ estGrams # Null

\* C38: when a price response puts a total next to the aggregate hint of the
\* staff page, the response is that of an upload submission and the figures
\* of the hint are those its price request was built from; the total of a
\* manual submission is never shown next to the estimate of an upload.
C38_HintMatchesTotal ==
    (ev.name = "StaffQuoteResponse" /\ HintVisible) =>
        /\ ev.rec.fn = "estimateAndCalcUpload"
        /\ estGrams = EstimateFigure(ev.rec.est.estimated_grams)
        /\ estMinutes = EstimateFigure(ev.rec.est.estimated_minutes)

\* C39: an upload submission sends its estimate request with the material
\* selected at the submit, and the price request that follows the estimate
\* carries that same material_id, and on the staff page the machine and the
\* quantity of the submit, whatever is selected when the estimate answers
\* (a call keeps the selections of the render of its submit).
C39_RequestsOfOneSubmission ==
    /\ ev.name \in UploadSubmits =>
            /\ Len(ev.estimateReq) = 1
            /\ ev.estimateReq[1].material_id = materialId
            /\ ev.rec.materialId = materialId
            /\ ev.rec.machineId = machineId
            /\ ev.rec.upQty = upQty
    /\ (ev.name \in {"StaffEstimateResponse", "PublicEstimateResponse"}
            /\ ev.quoteReq # <<>>) =>
            /\ Len(ev.quoteReq) = 1
            /\ ev.quoteReq[1].material_id = ev.rec.materialId
            /\ calls[ev.call].materialId = ev.rec.materialId
            /\ page = "staff" =>
                    /\ ev.quoteReq[1].machine_id = ev.rec.machineId
                    /\ ev.quoteReq[1].qty = Number(Or(ev.rec.upQty, JsNum(1)))

\* on the staff page the material and the quantity have been changed while
\* the estimate was outstanding; the price request carries those of the submit
C39_Witness ==
    /\ ev.name = "StaffEstimateResponse"
    /\ ev.quoteReq # <<>>
    /\ materialId # ev.rec.materialId
    /\ upQty = JsStr("3")
    /\ ev.quoteReq[1].material_id = ev.rec.materialId
    /\ ev.quoteReq[1].qty = JsNum(1)

----------------------------------------------------------------------------
(* Claims about the credential in the store (ShellSpec) *)

\* the 2xx bodies auth/login can answer with
LoginBodies == {j \in LoginResponses : j.kind = "ok"}

\* C40: the token and the role in the store change in two ways only: a
\* step that removes the token, and the answer of a successful login, which
\* writes the token and the role of one and the same response ("staff" when
\* it carries none) and navigates by that role; while a token stays in the
\* store the role next to it stays as that login wrote it.  A failed login
\* leaves the store and the page as they are.
C40_RoleOfTheToken ==
    [][ /\ (store'.staff_token # store.staff_token \/ store'.staff_role # store.staff_role) =>
            \/ store'.staff_token = Null
            \/ /\ ev'.name = "StaffLogin_response"
               /\ \E j \in LoginBodies :
                    /\ store'.staff_token = StoredString(j.access_token)
                    /\ store'.staff_role = (IF Truthy(j.role) THEN j.role ELSE JsStr("staff"))
                    /\ ev'.to = (IF j.role = JsStr("admin") THEN "/admin" ELSE "/staff")
        /\ (ev'.name = "StaffLogin_response" /\ ev'.to = "") =>
                store' = store /\ page' = page ]_vars

\* a login answered with a token and the role admin: both are in the store
\* and the admin page is shown
C40_Witness ==
    /\ ev.name = "StaffLogin_response"
    /\ ev.to = "/admin"
    /\ store.staff_token = JsStr("tok")
    /\ store.staff_role = JsStr("admin")
    /\ page = "admin"

====
